---- MODULE Spec2Model ----
(***************************************************************************)
(* AutoHeal AI - the OODA engine of the autoheal-agent service.            *)
(*                                                                         *)
(* The engine is a registry of HealingResults shared by the HTTP handlers  *)
(* (trigger, approve, cancel) and by the background tasks the handlers     *)
(* schedule.  Everything runs on one asyncio event loop: a handler or a    *)
(* task runs without interruption from one await to the next, so every     *)
(* action below is the code between two awaits.                            *)
(***************************************************************************)
EXTENDS Integers, Sequences, FiniteSets, TLC

\* ------------------------------------------------------------------------
\* Bounds of the model
\* ------------------------------------------------------------------------
MaxHealings == 2
MaxApprovals == 1
MaxTime == 2

\* ------------------------------------------------------------------------
\* Settings (autoheal-agent/src/config.py); both are configuration values
\* ------------------------------------------------------------------------
max_concurrent_healings == 1
cooldown_minutes == 1

HealingModes == {"auto", "semi_auto", "manual"}

\* ------------------------------------------------------------------------
\* Inputs
\* ------------------------------------------------------------------------
Incidents == {"inc-1", "inc-2"}
Services == {"checkout", "payments"}

\* An incident has one target service and one suspected root cause; the
\* caller chooses force.
IncidentService(incident_id) ==
    IF incident_id = "inc-1" THEN "checkout" ELSE "payments"

IncidentRootCause(incident_id) ==
    IF incident_id = "inc-1" THEN "error_rate_spike" ELSE ""

HealingRequest(incident_id, force) ==
    [incident_id |-> incident_id,
     target_service |-> IncidentService(incident_id),
     severity |-> "high",
     root_cause |-> IncidentRootCause(incident_id),
     recommended_actions |-> <<>>,
     force |-> force]

HealingRequests ==
    {HealingRequest(incident_id, force) :
        incident_id \in Incidents, force \in BOOLEAN}

NoTime == 0
NoPlan == [actions |-> <<>>, confidence |-> 0, risk_assessment |-> ""]
NoReturns == [total |-> 0, success |-> 0]
NoRequest == [incident_id |-> "", target_service |-> "", severity |-> "",
              root_cause |-> "", recommended_actions |-> <<>>, force |-> FALSE]

TerminalStatuses == {"completed", "failed", "cancelled"}

VARIABLES
    healing_mode,   \* settings.healing_mode
    healings,       \* OODAEngine._healings, indexed by healing id 1..Len
    states,         \* OODAEngine._states, same index
    cooldowns,      \* OODAEngine._cooldowns: service -> cooldown-until
    tasks,          \* background tasks scheduled by the handlers
    dispatched,     \* per healing, the plan positions POSTed to the executor
    trail,          \* per healing, the statuses its tasks wrote, in order
    now,            \* datetime.utcnow()
    response,       \* the last HTTP response of a handler
    returns,        \* per healing, how many POSTs returned, and how many
                    \* of them with success
    healing_enabled,    \* incident manager: settings.healing_enabled
    approval_required,  \* incident manager: settings.approval_required
    incidents,      \* IncidentStore._incidents, in insertion order
    posts,          \* the POSTs of _trigger_healing to the agent
    manager_response,   \* the last HTTP response of the incident manager
    audit_records,  \* audit service: AuditStore._records, in insertion order
    audit_created,  \* audit service: how many record ids uuid4() has given
    audit_clock,    \* audit service: its datetime.utcnow()
    audit_response, \* the last HTTP response of the audit service
    _recent_anomalies,  \* monitoring: AnomalyDetector._recent_anomalies
    detector_clock, \* monitoring: its datetime.utcnow()
    detection,      \* monitoring: the last detect_anomalies call and its result
    alerts,         \* monitoring: the anomalies detect_anomalies has returned
    _state,             \* CircuitBreaker._state
    _failure_count,     \* CircuitBreaker._failure_count
    _last_failure_time, \* CircuitBreaker._last_failure_time
    _half_open_calls,   \* CircuitBreaker._half_open_calls
    breaker_clock,  \* time.time() as the breaker reads it
    calls           \* the calls made on the breaker, with what they returned

manager_vars ==
    <<healing_enabled, approval_required, incidents, posts, manager_response>>

audit_vars == <<audit_records, audit_created, audit_clock, audit_response>>

detector_vars == <<_recent_anomalies, detector_clock, detection, alerts>>

breaker_vars ==
    <<_state, _failure_count, _last_failure_time, _half_open_calls,
      breaker_clock, calls>>

vars == <<healing_mode, healings, states, cooldowns, tasks, dispatched,
          trail, now, response, returns, manager_vars, audit_vars, detector_vars, breaker_vars>>

\* what a handler of the incident manager answered
ManagerResponse(op, code, action, incident_id) ==
    [op |-> op, code |-> code, action |-> action, incident_id |-> incident_id]

\* ------------------------------------------------------------------------
\* Decision maker (pure)
\* ------------------------------------------------------------------------
\* CAUSE_ACTION_MAP in dict order: pattern, then its candidate action types
CAUSE_ACTION_MAP ==
    << <<"error_rate_spike", <<"RESTART_POD", "SCALE_UP">> >>,
       <<"latency_spike",    <<"SCALE_UP", "CIRCUIT_BREAKER">> >>,
       <<"cpu_overload",     <<"SCALE_UP", "INCREASE_RESOURCES">> >>,
       <<"memory_overload",  <<"RESTART_POD", "INCREASE_RESOURCES">> >>,
       <<"pod_crash_loop",   <<"ROLLBACK", "RESTART_POD">> >>,
       <<"connection_error", <<"CIRCUIT_BREAKER", "FAILOVER">> >>,
       <<"timeout",          <<"SCALE_UP", "RATE_LIMIT">> >>,
       <<"out_of_memory",    <<"RESTART_POD", "INCREASE_RESOURCES">> >>,
       <<"database",         <<"RESTART_POD", "FAILOVER">> >> >>

\* A text is modelled by the set of keywords it contains.
_observe(request) ==
    {request.incident_id, request.target_service, request.severity}
        \cup (IF request.root_cause # "" THEN {request.root_cause} ELSE {})
        \cup {request.recommended_actions[k] :
                 k \in DOMAIN request.recommended_actions}

analyze_incident(root_cause, severity, recommended_actions) ==
    (IF root_cause # ""
     THEN {"root cause identified"} \cup
          (IF \E k \in DOMAIN CAUSE_ACTION_MAP : CAUSE_ACTION_MAP[k][1] = root_cause
           THEN {"known pattern"} ELSE {"unknown pattern"})
     ELSE {"no root cause identified"})
    \cup {severity}
    \cup (IF recommended_actions # <<>> THEN {"recommendations available"} ELSE {})

_orient(request, observation) ==
    analyze_incident(request.root_cause, request.severity,
                     request.recommended_actions)

HintAction(rec) ==
    IF rec = "restart" THEN <<"RESTART_POD">>
    ELSE IF rec = "scale" THEN <<"SCALE_UP">>
    ELSE IF rec = "rollback" THEN <<"ROLLBACK">>
    ELSE IF rec = "circuit" THEN <<"CIRCUIT_BREAKER">>
    ELSE <<>>

RECURSIVE Dedup(_, _)
Dedup(selected, seen) ==
    IF selected = <<>> THEN <<>>
    ELSE IF Head(selected) \in seen THEN Dedup(Tail(selected), seen)
    ELSE <<Head(selected)>> \o Dedup(Tail(selected), seen \cup {Head(selected)})

FirstN(s, n) == SubSeq(s, 1, IF Len(s) < n THEN Len(s) ELSE n)

\* variant: action types that an earlier plan of this engine holds are
\* left out
_select_actions_skips_tried(observation, recommended_actions) ==
    LET matches == {k \in DOMAIN CAUSE_ACTION_MAP :
                       CAUSE_ACTION_MAP[k][1] \in observation}
        first == CHOOSE k \in matches : \A j \in matches : k <= j
        fromTable == IF matches = {} THEN <<>>
                     ELSE FirstN(CAUSE_ACTION_MAP[first][2], 2)
        recs == FirstN(recommended_actions, 2)
        fromHints == IF Len(recs) = 0 THEN <<>>
                     ELSE IF Len(recs) = 1 THEN HintAction(recs[1])
                     ELSE HintAction(recs[1]) \o HintAction(recs[2])
        tried == UNION {{healings[h].plan.actions[k] :
                            k \in DOMAIN healings[h].plan.actions} :
                        h \in DOMAIN healings}
    IN  FirstN(Dedup(fromTable \o fromHints, tried), 3)

\* variant: the list is not cut to three
_select_actions_untruncated(observation, recommended_actions) ==
    LET matches == {k \in DOMAIN CAUSE_ACTION_MAP :
                       CAUSE_ACTION_MAP[k][1] \in observation}
        first == CHOOSE k \in matches : \A j \in matches : k <= j
        fromTable == IF matches = {} THEN <<>>
                     ELSE FirstN(CAUSE_ACTION_MAP[first][2], 2)
        recs == FirstN(recommended_actions, 2)
        fromHints == IF Len(recs) = 0 THEN <<>>
                     ELSE IF Len(recs) = 1 THEN HintAction(recs[1])
                     ELSE HintAction(recs[1]) \o HintAction(recs[2])
    IN  Dedup(fromTable \o fromHints, {})

_select_actions(observation, recommended_actions) ==
    LET matches == {k \in DOMAIN CAUSE_ACTION_MAP :
                       CAUSE_ACTION_MAP[k][1] \in observation}
        first == CHOOSE k \in matches : \A j \in matches : k <= j
        fromTable == IF matches = {} THEN <<>>
                     ELSE FirstN(CAUSE_ACTION_MAP[first][2], 2)
        recs == FirstN(recommended_actions, 2)
        fromHints == IF Len(recs) = 0 THEN <<>>
                     ELSE IF Len(recs) = 1 THEN HintAction(recs[1])
                     ELSE HintAction(recs[1]) \o HintAction(recs[2])
    IN  FirstN(Dedup(fromTable \o fromHints, {}), 3)

_assess_action_risk(action_type) ==
    IF action_type \in {"ROLLBACK", "SCALE_DOWN", "CUSTOM"} THEN "high"
    ELSE IF action_type \in {"INCREASE_RESOURCES", "FAILOVER"} THEN "medium"
    ELSE "low"

\* phrase in text.lower(): a text that says "unknown pattern" also contains
\* "known pattern"
Mentions(text, phrase) ==
    \/ phrase \in text
    \/ phrase = "known pattern" /\ "unknown pattern" \in text

\* confidence in hundredths; the text it is given is the observation
_calculate_confidence(actions, observation) ==
    LET base == 70
        known == IF Mentions(observation, "known pattern") THEN 15 ELSE 0
        unknown == IF Mentions(observation, "unknown pattern") THEN 20 ELSE 0
        risk == IF \E k \in DOMAIN actions :
                        _assess_action_risk(actions[k]) = "high"
                THEN 10 ELSE 0
        base_confidence == base + known - unknown - risk
        capped == IF base_confidence < 95 THEN base_confidence ELSE 95
    IN  IF capped > 30 THEN capped ELSE 30

_assess_plan_risk(actions) ==
    LET risks == {_assess_action_risk(actions[k]) : k \in DOMAIN actions}
    IN  IF "high" \in risks THEN "HIGH"
        ELSE IF "medium" \in risks THEN "MEDIUM"
        ELSE "LOW"

\* the default action of an empty selection has risk_level low
generate_plan(incident_id, observation, orientation, recommended_actions) ==
    LET action_types == _select_actions(observation, recommended_actions)
        actions == IF action_types = <<>> THEN <<"RESTART_POD">>
                   ELSE action_types
    IN  [actions |-> actions,
         confidence |-> _calculate_confidence(actions, observation),
         risk_assessment |-> _assess_plan_risk(actions)]

_decide(request, observation, orientation) ==
    generate_plan(request.incident_id, observation, orientation,
                  request.recommended_actions)

\* _validate is a stub that reports success
_validate(service) == TRUE

\* ------------------------------------------------------------------------
\* Engine reads
\* ------------------------------------------------------------------------
HealingIds == DOMAIN healings

get_healing(healing_id) == healing_id \in HealingIds

\* variant: only a healing still in status pending counts
is_healing_pending_only(incident_id) ==
    \E h \in HealingIds :
        /\ healings[h].incident_id = incident_id
        /\ healings[h].status = "pending"

is_healing(incident_id) ==
    \E h \in HealingIds :
        /\ healings[h].incident_id = incident_id
        /\ healings[h].status \notin TerminalStatuses

is_in_cooldown(service) ==
    /\ cooldowns[service] # NoTime
    /\ now < cooldowns[service]

\* variant: only healings in the Act phase count
get_active_count_acting_only ==
    Cardinality({h \in HealingIds : healings[h].status = "acting"})

get_active_count ==
    Cardinality({h \in HealingIds : healings[h].status \notin TerminalStatuses})


\* ------------------------------------------------------------------------
\* Helpers on the registry
\* ------------------------------------------------------------------------
\* completed_at is modelled by whether it has been stamped: the only code
\* that reads the time it holds is get_average_duration, over _history.  started_at is the clock's reading when
\* the result is built (the schema's default), which get_history sorts by.
HealingResult(healing_id, incident_id, status) ==
    [healing_id |-> healing_id, incident_id |-> incident_id, status |-> status,
     plan |-> NoPlan, actions_executed |-> 0, actions_successful |-> 0,
     started_at |-> now,
     completed_at |-> FALSE, result_message |-> "", error_message |-> ""]

OODAState(healing_id, phase) ==
    [healing_id |-> healing_id, phase |-> phase,
     observation |-> {}, orientation |-> {}, decision |-> 0]

Task(kind, healing_id, request) ==
    [kind |-> kind, healing_id |-> healing_id, request |-> request,
     pc |-> "start", idx |-> 0]

\* what a task keeps of the request: no task reads force
TaskRequest(request) == [request EXCEPT !.force = FALSE]

Finished(t) == [tasks EXCEPT ![t].pc = "done", ![t].idx = 0]

ExecTasks == {t \in DOMAIN tasks : tasks[t].kind = "execute_plan"}

\* register_healing stores the result object and a fresh OODAState
register_healing(result) ==
    /\ healings' = Append(healings, result)
    /\ states' = Append(states, OODAState(result.healing_id, "pending"))

\* the task the trigger handler schedules, and the status it writes on the
\* registered result before returning
ModeTask(mode) ==
    IF mode = "auto" THEN "run_ooda_loop"
    ELSE IF mode = "semi_auto" THEN "generate_plan_only"
    ELSE "analyze_only"

ModeStatus(mode) ==
    IF mode = "auto" THEN "observing"
    ELSE IF mode = "semi_auto" THEN "deciding"
    ELSE "orienting"

\* ------------------------------------------------------------------------
\* HTTP handlers (api/routes.py); none of them awaits, so each is one step.
\* response is what the handler returned, with the request it answered.
\* ------------------------------------------------------------------------
Response(op, request, healing_id, code, detail) ==
    [op |-> op, request |-> request, healing_id |-> healing_id,
     code |-> code, detail |-> detail]

Reject(op, request, healing_id, code, detail) ==
    /\ response' = Response(op, request, healing_id, code, detail)
    /\ UNCHANGED <<healing_mode, returns, healings, states, cooldowns, tasks,
                   dispatched, trail, now>>

\* variant: the cooldown check does not look at force
admission_force_ignored(request_data) ==
    IF is_healing(request_data.incident_id) THEN "already_healing"
    ELSE IF get_active_count >= max_concurrent_healings THEN "concurrency_limit"
    ELSE IF is_in_cooldown(request_data.target_service) THEN "cooldown_active"
    ELSE "admitted"

\* variant: the cooldown check comes first
admission_cooldown_first(request_data) ==
    IF is_in_cooldown(request_data.target_service) /\ ~request_data.force
         THEN "cooldown_active"
    ELSE IF is_healing(request_data.incident_id) THEN "already_healing"
    ELSE IF get_active_count >= max_concurrent_healings THEN "concurrency_limit"
    ELSE "admitted"

\* the three admission checks of trigger_healing, in the order of the code
admission(request_data) ==
    IF is_healing(request_data.incident_id) THEN "already_healing"
    ELSE IF get_active_count >= max_concurrent_healings THEN "concurrency_limit"
    ELSE IF is_in_cooldown(request_data.target_service) /\ ~request_data.force
         THEN "cooldown_active"
    ELSE "admitted"

trigger_healing(request_data) ==
    LET verdict == admission(request_data) IN
    IF verdict = "already_healing"
    THEN Reject("trigger", request_data, 0, 409, verdict)
    ELSE IF verdict \in {"concurrency_limit", "cooldown_active"}
    THEN Reject("trigger", request_data, 0, 429, verdict)
    ELSE
        LET healing_id == Len(healings) + 1
            result == HealingResult(healing_id, request_data.incident_id,
                                    ModeStatus(healing_mode))
        IN  /\ Len(healings) < MaxHealings
            /\ register_healing(result)
            /\ tasks' = Append(tasks, Task(ModeTask(healing_mode), healing_id,
                                           TaskRequest(request_data)))
            /\ dispatched' = Append(dispatched, <<>>)
            /\ trail' = Append(trail, <<>>)
            /\ response' = Response("trigger", request_data, healing_id, 200,
                                    "admitted")
            /\ returns' = Append(returns, NoReturns)
            /\ UNCHANGED <<healing_mode, cooldowns, now>>

\* variant: approve does not look at the status
approval_any_status(healing_id) ==
    IF ~get_healing(healing_id) THEN "not_found"
    ELSE "approved"

\* the checks of approve_healing_plan
approval(healing_id) ==
    IF ~get_healing(healing_id) THEN "not_found"
    ELSE IF healings[healing_id].status # "deciding" THEN "invalid_state"
    ELSE "approved"

approve_healing_plan(healing_id) ==
    LET verdict == approval(healing_id) IN
    /\ UNCHANGED <<manager_vars, audit_vars, detector_vars, breaker_vars>>
    /\ IF verdict = "not_found"
       THEN Reject("approve", NoRequest, healing_id, 404, verdict)
       ELSE IF verdict = "invalid_state"
       THEN Reject("approve", NoRequest, healing_id, 400, verdict)
       ELSE
           /\ tasks' = Append(tasks, Task("execute_plan", healing_id, NoRequest))
           /\ response' = Response("approve", NoRequest, healing_id, 200, verdict)
           /\ UNCHANGED <<healing_mode, returns, healings, states, cooldowns,
                          dispatched,
                          trail, now>>

\* variant: cancel marks every healing that is not yet terminal
cancel_healing_all_active(healing_id) ==
    /\ UNCHANGED <<manager_vars, audit_vars, detector_vars, breaker_vars>>
    /\ IF ~get_healing(healing_id)
       THEN Reject("cancel", NoRequest, healing_id, 404, "not_found")
       ELSE
           /\ healings' = [h \in DOMAIN healings |->
                   IF h = healing_id \/ healings[h].status \notin TerminalStatuses
                   THEN [healings[h] EXCEPT !.status = "cancelled",
                                            !.completed_at = TRUE]
                   ELSE healings[h]]
           /\ response' = Response("cancel", NoRequest, healing_id, 200,
                                   "cancelled")
           /\ UNCHANGED <<healing_mode, returns, states, cooldowns, tasks,
                          dispatched, trail, now>>

\* cancel: the route and OODAEngine.cancel_healing, which checks nothing
\* but the existence of the healing
cancel_healing(healing_id) ==
    /\ UNCHANGED <<manager_vars, audit_vars, detector_vars, breaker_vars>>
    /\ IF ~get_healing(healing_id)
       THEN Reject("cancel", NoRequest, healing_id, 404, "not_found")
       ELSE
           /\ healings' = [healings EXCEPT ![healing_id].status = "cancelled",
                                           ![healing_id].completed_at = TRUE]
           /\ response' = Response("cancel", NoRequest, healing_id, 200, "cancelled")
           /\ UNCHANGED <<healing_mode, returns, states, cooldowns, tasks,
                          dispatched,
                          trail, now>>

\* ------------------------------------------------------------------------
\* Background tasks (core/ooda_engine.py).  A task is scheduled by a handler
\* and starts after the handler's response has been sent.  _observe, _orient,
\* _decide and _validate contain no await of their own, so awaiting them
\* never suspends the task: the only suspension point of a running task is
\* the POST to the executor in _execute_action.  tasks[t].pc is where the
\* task is: "start" (scheduled, not yet run), "act" (the POST of plan
\* action idx is in flight), "done".
\* ------------------------------------------------------------------------
Post(h, i) == [dispatched EXCEPT ![h] = Append(@, i)]

\* the POST in flight for healing h returned with this outcome
Returned(h, outcome) ==
    [returns EXCEPT ![h].total = @ + 1,
                    ![h].success = IF outcome = "success" THEN @ + 1 ELSE @]

Wrote(h, statuses) == [trail EXCEPT ![h] = @ \o statuses]

\* variant: the loop stops after Decide, as generate_plan_only does
run_ooda_loop_halts_at_decide(t) ==
    LET h == tasks[t].healing_id
        request == tasks[t].request
        observation == _observe(request)
        orientation == _orient(request, observation)
        plan == _decide(request, observation, orientation)
    IN
    /\ tasks[t].kind = "run_ooda_loop" /\ tasks[t].pc = "start"
    /\ states' = [states EXCEPT ![h].observation = observation,
                                ![h].orientation = orientation,
                                ![h].decision = Len(plan.actions),
                                ![h].phase = "decide"]
    /\ healings' = [healings EXCEPT ![h].plan = plan, ![h].status = "deciding"]
    /\ trail' = Wrote(h, <<"observing", "orienting", "deciding">>)
    /\ tasks' = Finished(t)
    /\ UNCHANGED <<manager_vars, audit_vars, detector_vars, breaker_vars, healing_mode, returns, cooldowns, dispatched,
                   now,
                   response>>

\* run_ooda_loop from its start to the first POST of _act: Observe, Orient,
\* Decide, the plan is stored, Act begins (a plan has at least one action)
run_ooda_loop(t) ==
    LET h == tasks[t].healing_id
        request == tasks[t].request
        observation == _observe(request)
        orientation == _orient(request, observation)
        plan == _decide(request, observation, orientation)
    IN
    /\ tasks[t].kind = "run_ooda_loop" /\ tasks[t].pc = "start"
    /\ states' = [states EXCEPT ![h].observation = observation,
                                ![h].orientation = orientation,
                                ![h].decision = Len(plan.actions),
                                ![h].phase = "act"]
    /\ healings' = [healings EXCEPT ![h].plan = plan, ![h].status = "acting"]
    /\ trail' = Wrote(h, <<"observing", "orienting", "deciding", "acting">>)
    /\ dispatched' = Post(h, 1)
    /\ tasks' = [tasks EXCEPT ![t].pc = "act", ![t].idx = 1]
    /\ UNCHANGED <<manager_vars, audit_vars, detector_vars, breaker_vars, healing_mode, returns, cooldowns, now,
                   response>>

\* _act: _execute_action returned for action idx (success TRUE or FALSE, or
\* it raised, which the loop of _act catches); the counters are bumped and
\* the next action is POSTed.  Enabled while actions remain.
DispatchOutcomes == {"success", "failure", "raised"}

\* variant: a dispatch that raises is not counted as executed
Counted_raise_not_counted(h, outcome) ==
    [healings EXCEPT
        ![h].actions_executed = IF outcome = "raised" THEN @ ELSE @ + 1,
        ![h].actions_successful = IF outcome = "success" THEN @ + 1 ELSE @]

\* the counters of _act after _execute_action returned or raised
Counted(h, outcome) ==
    [healings EXCEPT
        ![h].actions_executed = @ + 1,
        ![h].actions_successful = IF outcome = "success" THEN @ + 1 ELSE @]

_act(t, outcome) ==
    LET h == tasks[t].healing_id IN
    /\ tasks[t].pc = "act"
    /\ tasks[t].idx < Len(healings[h].plan.actions)
    /\ healings' = Counted(h, outcome)
    /\ dispatched' = Post(h, tasks[t].idx + 1)
    /\ tasks' = [tasks EXCEPT ![t].idx = @ + 1]
    /\ returns' = Returned(h, outcome)
    /\ UNCHANGED <<manager_vars, audit_vars, detector_vars, breaker_vars, healing_mode, states, cooldowns, trail, now,
                   response>>

\* the last action returned and _act returns: Validate, Complete, and the
\* cooldown of the target service
run_ooda_loop_complete(t, outcome) ==
    LET h == tasks[t].healing_id
        success == _validate(tasks[t].request.target_service)
        status == IF success THEN "completed" ELSE "failed"
    IN
    /\ tasks[t].kind = "run_ooda_loop" /\ tasks[t].pc = "act"
    /\ tasks[t].idx = Len(healings[h].plan.actions)
    /\ states' = [states EXCEPT ![h].phase = "validate"]
    /\ healings' = [Counted(h, outcome) EXCEPT
            ![h].status = status,
            ![h].completed_at = TRUE,
            ![h].result_message = IF success THEN "Healing completed successfully"
                                  ELSE "Healing validation failed"]
    /\ trail' = Wrote(h, <<"validating", status>>)
    /\ cooldowns' = [cooldowns EXCEPT ![tasks[t].request.target_service] =
                                            now + cooldown_minutes]
    /\ tasks' = Finished(t)
    /\ returns' = Returned(h, outcome)
    /\ UNCHANGED <<manager_vars, audit_vars, detector_vars, breaker_vars, healing_mode, dispatched, now, response>>

\* the except branch of run_ooda_loop: a phase raised (Observe, Orient or
\* Decide before the first POST; _act or Validate afterwards)
run_ooda_loop_except(t) ==
    LET h == tasks[t].healing_id IN
    /\ tasks[t].kind = "run_ooda_loop" /\ tasks[t].pc \in {"start", "act"}
    /\ states' = [states EXCEPT ![h].phase =
                        IF tasks[t].pc = "start" THEN "observe" ELSE @]
    /\ healings' = [healings EXCEPT ![h].status = "failed",
                                    ![h].error_message = "exception",
                                    ![h].completed_at = TRUE]
    /\ trail' = Wrote(h, (IF tasks[t].pc = "start" THEN <<"observing">> ELSE <<>>)
                         \o <<"failed">>)
    /\ tasks' = Finished(t)
    /\ UNCHANGED <<manager_vars, audit_vars, detector_vars, breaker_vars, healing_mode, returns, cooldowns, dispatched,
                   now,
                   response>>

\* variant: plan generation goes on into Act without waiting for approval
generate_plan_only_then_act(t) ==
    LET h == tasks[t].healing_id
        request == tasks[t].request
        observation == _observe(request)
        orientation == _orient(request, observation)
        plan == _decide(request, observation, orientation)
    IN
    /\ tasks[t].kind = "generate_plan_only" /\ tasks[t].pc = "start"
    /\ states' = [states EXCEPT ![h].observation = observation,
                                ![h].orientation = orientation,
                                ![h].decision = Len(plan.actions),
                                ![h].phase = "act"]
    /\ healings' = [healings EXCEPT ![h].plan = plan, ![h].status = "acting"]
    /\ trail' = Wrote(h, <<"deciding", "acting">>)
    /\ dispatched' = Post(h, 1)
    /\ tasks' = [tasks EXCEPT ![t].pc = "act", ![t].idx = 1]
    /\ UNCHANGED <<manager_vars, audit_vars, detector_vars, breaker_vars, healing_mode, returns, cooldowns, now,
                   response>>

\* generate_plan_only (semi_auto): Observe, Orient, Decide, then the halt
generate_plan_only(t) ==
    LET h == tasks[t].healing_id
        request == tasks[t].request
        observation == _observe(request)
        orientation == _orient(request, observation)
        plan == _decide(request, observation, orientation)
    IN
    /\ tasks[t].kind = "generate_plan_only" /\ tasks[t].pc = "start"
    /\ states' = [states EXCEPT ![h].observation = observation,
                                ![h].orientation = orientation,
                                ![h].decision = Len(plan.actions),
                                ![h].phase = "decide"]
    /\ healings' = [healings EXCEPT
            ![h].plan = plan, ![h].status = "deciding",
            ![h].result_message = "Plan generated, awaiting approval"]
    /\ trail' = Wrote(h, <<"deciding">>)
    /\ tasks' = Finished(t)
    /\ UNCHANGED <<manager_vars, audit_vars, detector_vars, breaker_vars, healing_mode, returns, cooldowns, dispatched,
                   now,
                   response>>

generate_plan_only_except(t) ==
    LET h == tasks[t].healing_id IN
    /\ tasks[t].kind = "generate_plan_only" /\ tasks[t].pc = "start"
    /\ states' = [states EXCEPT ![h].phase = "observe"]
    /\ healings' = [healings EXCEPT ![h].status = "failed",
                                    ![h].error_message = "exception"]
    /\ trail' = Wrote(h, <<"failed">>)
    /\ tasks' = Finished(t)
    /\ UNCHANGED <<manager_vars, audit_vars, detector_vars, breaker_vars, healing_mode, returns, cooldowns, dispatched,
                   now,
                   response>>

\* variant: the analysis goes on to Decide and Act
analyze_only_then_act(t) ==
    LET h == tasks[t].healing_id
        request == tasks[t].request
        observation == _observe(request)
        orientation == _orient(request, observation)
        plan == _decide(request, observation, orientation)
    IN
    /\ tasks[t].kind = "analyze_only" /\ tasks[t].pc = "start"
    /\ states' = [states EXCEPT ![h].observation = observation,
                                ![h].orientation = orientation,
                                ![h].decision = Len(plan.actions),
                                ![h].phase = "act"]
    /\ healings' = [healings EXCEPT ![h].plan = plan, ![h].status = "acting"]
    /\ trail' = Wrote(h, <<"acting">>)
    /\ dispatched' = Post(h, 1)
    /\ tasks' = [tasks EXCEPT ![t].pc = "act", ![t].idx = 1]
    /\ UNCHANGED <<manager_vars, audit_vars, detector_vars, breaker_vars, healing_mode, returns, cooldowns, now,
                   response>>

\* analyze_only (manual): Observe, Orient, completed
analyze_only(t) ==
    LET h == tasks[t].healing_id
        request == tasks[t].request
        observation == _observe(request)
        orientation == _orient(request, observation)
    IN
    /\ tasks[t].kind = "analyze_only" /\ tasks[t].pc = "start"
    /\ states' = [states EXCEPT ![h].observation = observation,
                                ![h].orientation = orientation,
                                ![h].phase = "orient"]
    /\ healings' = [healings EXCEPT
            ![h].status = "completed",
            ![h].result_message = "Analysis complete. Manual action required.",
            ![h].completed_at = TRUE]
    /\ trail' = Wrote(h, <<"completed">>)
    /\ tasks' = Finished(t)
    /\ UNCHANGED <<manager_vars, audit_vars, detector_vars, breaker_vars, healing_mode, returns, cooldowns, dispatched,
                   now,
                   response>>

analyze_only_except(t) ==
    LET h == tasks[t].healing_id IN
    /\ tasks[t].kind = "analyze_only" /\ tasks[t].pc = "start"
    /\ states' = [states EXCEPT ![h].phase = "observe"]
    /\ healings' = [healings EXCEPT ![h].status = "failed",
                                    ![h].error_message = "exception"]
    /\ trail' = Wrote(h, <<"failed">>)
    /\ tasks' = Finished(t)
    /\ UNCHANGED <<manager_vars, audit_vars, detector_vars, breaker_vars, healing_mode, returns, cooldowns, dispatched,
                   now,
                   response>>

\* execute_plan (scheduled by approve): returns at once without a plan,
\* otherwise enters Act and POSTs the first action
execute_plan_no_plan(t) ==
    LET h == tasks[t].healing_id IN
    /\ tasks[t].kind = "execute_plan" /\ tasks[t].pc = "start"
    /\ healings[h].plan = NoPlan
    /\ tasks' = Finished(t)
    /\ UNCHANGED <<manager_vars, audit_vars, detector_vars, breaker_vars, healing_mode, returns, healings, states,
                   cooldowns,
                   dispatched,
                   trail, now, response>>

execute_plan(t) ==
    LET h == tasks[t].healing_id IN
    /\ tasks[t].kind = "execute_plan" /\ tasks[t].pc = "start"
    /\ healings[h].plan # NoPlan
    /\ healings' = [healings EXCEPT ![h].status = "acting"]
    /\ trail' = Wrote(h, <<"acting">>)
    /\ dispatched' = Post(h, 1)
    /\ tasks' = [tasks EXCEPT ![t].pc = "act", ![t].idx = 1]
    /\ UNCHANGED <<manager_vars, audit_vars, detector_vars, breaker_vars, healing_mode, returns, states, cooldowns,
                   now, response>>

\* the last action returned and _act returns: validating, then completed
execute_plan_complete(t, outcome) ==
    LET h == tasks[t].healing_id IN
    /\ tasks[t].kind = "execute_plan" /\ tasks[t].pc = "act"
    /\ tasks[t].idx = Len(healings[h].plan.actions)
    /\ healings' = [Counted(h, outcome) EXCEPT
            ![h].status = "completed",
            ![h].completed_at = TRUE,
            ![h].result_message = "Plan executed successfully"]
    /\ trail' = Wrote(h, <<"validating", "completed">>)
    /\ tasks' = Finished(t)
    /\ returns' = Returned(h, outcome)
    /\ UNCHANGED <<manager_vars, audit_vars, detector_vars, breaker_vars, healing_mode, states, cooldowns, dispatched,
                   now, response>>

\* the except branch of execute_plan: _act raised
execute_plan_except(t) ==
    LET h == tasks[t].healing_id IN
    /\ tasks[t].kind = "execute_plan" /\ tasks[t].pc = "act"
    /\ healings' = [healings EXCEPT ![h].status = "failed",
                                    ![h].error_message = "exception"]
    /\ trail' = Wrote(h, <<"failed">>)
    /\ tasks' = Finished(t)
    /\ UNCHANGED <<manager_vars, audit_vars, detector_vars, breaker_vars, healing_mode, returns, states, cooldowns,
                   dispatched, now,
                   response>>

\* time passes
Tick ==
    /\ now < MaxTime
    /\ now' = now + 1
    /\ UNCHANGED <<manager_vars, audit_vars, detector_vars, breaker_vars, healing_mode, returns, healings, states,
                   cooldowns, tasks,
                   dispatched, trail, response>>

\* ------------------------------------------------------------------------
\* Read operations of the engine behind GET /history and GET /stats.
\* _history is built empty by OODAEngine.__init__ and no code of the agent
\* writes it afterwards.  A rate is modelled by the fraction
\* <<numerator, denominator>> that the code divides.
\* ------------------------------------------------------------------------
MaxLimit == 2

_history == <<>>

get_total_count == Len(healings) + Len(_history)

get_success_rate ==
    LET completed == SelectSeq(_history, LAMBDA h : h.status = "completed")
        total == Len(_history)
    IN  IF total > 0 THEN <<Len(completed), total>> ELSE <<0, 1>>

\* records[start:stop] of Python
Slice(records, start, stop) ==
    SubSeq(records, start + 1, IF stop < Len(records) THEN stop ELSE Len(records))

\* list.sort(key=started_at, reverse=True): stable, latest first
StartedInsert(sorted, r) ==
    LET n == Cardinality({i \in DOMAIN sorted : sorted[i].started_at >= r.started_at})
    IN  SubSeq(sorted, 1, n) \o <<r>> \o SubSeq(sorted, n + 1, Len(sorted))

RECURSIVE SortByStartedAt(_)
SortByStartedAt(history) ==
    IF history = <<>> THEN <<>>
    ELSE StartedInsert(SortByStartedAt(SubSeq(history, 1, Len(history) - 1)),
                       history[Len(history)])

\* the service argument is tested and then not used ("if service: pass")
get_history(service, limit) ==
    LET history == _history \o SelectSeq(healings,
                        LAMBDA h : h.status \in {"completed", "failed"})
    IN  Slice(SortByStartedAt(history), 0, limit)

AgentRead(answer) ==
    /\ response' = answer
    /\ UNCHANGED <<manager_vars, audit_vars, detector_vars, breaker_vars, healing_mode, returns, healings,
                   states, cooldowns, tasks, dispatched, trail, now>>

\* GET /history; service "" is the absent parameter
get_healing_history(service, limit) ==
    LET history == get_history(service, limit)
    IN  AgentRead([op |-> "history", request |-> NoRequest, healing_id |-> 0,
                   code |-> 200, detail |-> "", service |-> service,
                   limit |-> limit, healings |-> history,
                   count |-> Len(history)])

\* GET /stats
get_healing_stats ==
    AgentRead([op |-> "stats", request |-> NoRequest, healing_id |-> 0,
               code |-> 200, detail |-> "",
               active_healings |-> get_active_count,
               total_healings |-> get_total_count,
               success_rate |-> get_success_rate])

\* ------------------------------------------------------------------------
\* Audit service (audit-service/src): AuditStore and the handlers of its
\* router.  No handler awaits, so each is one step.  A record is modelled by
\* its record_id, timestamp and incident_id.  The timestamp of a record is
\* the service's datetime.utcnow() when the handler builds it; utcnow reads
\* the wall clock, which may be set forward or back between two requests.
\* ------------------------------------------------------------------------
MaxAuditRecords == 4
MaxAuditClock == 3

max_records == 3

\* page_size of the query of get_incident_timeline
timeline_page_size == 2

\* incident ids of audit records; "" stands for None
AuditIncidents == {"inc-1", "inc-2"}

AuditRecord(record_id, incident_id) ==
    [record_id |-> record_id, timestamp |-> audit_clock,
     incident_id |-> incident_id]

AuditResponse(op, code, incident_id, records, total) ==
    [op |-> op, code |-> code, incident_id |-> incident_id,
     records |-> records, total |-> total]

\* list.sort(key=timestamp, reverse=...): stable in both directions
SortsBefore(a, b, reverse) ==
    IF reverse THEN a.timestamp >= b.timestamp ELSE a.timestamp <= b.timestamp

SortInsert(sorted, r, reverse) ==
    LET n == Cardinality({i \in DOMAIN sorted : SortsBefore(sorted[i], r, reverse)})
    IN  SubSeq(sorted, 1, n) \o <<r>> \o SubSeq(sorted, n + 1, Len(sorted))

RECURSIVE SortByTimestamp(_, _)
SortByTimestamp(records, reverse) ==
    IF records = <<>> THEN <<>>
    ELSE SortInsert(SortByTimestamp(SubSeq(records, 1, Len(records) - 1), reverse),
                    records[Len(records)], reverse)

\* variant: the oldest records are kept
_prune_old_records_keeps_oldest(records) ==
    IF Len(records) <= max_records THEN records
    ELSE LET sorted_ids == SortByTimestamp(records, FALSE)
             keep == {sorted_ids[i].record_id : i \in 1..max_records}
         IN  SelectSeq(records, LAMBDA r : r.record_id \in keep)

_prune_old_records(records) ==
    IF Len(records) <= max_records THEN records
    ELSE LET sorted_ids == SortByTimestamp(records, TRUE)
             keep == {sorted_ids[i].record_id : i \in 1..max_records}
         IN  SelectSeq(records, LAMBDA r : r.record_id \in keep)

\* AuditStore.add
add(record) ==
    LET records == Append(audit_records, record)
    IN  IF Len(records) > max_records THEN _prune_old_records(records)
        ELSE records

\* the filter that query and count share; an empty incident_id is no filter
Filtered(incident_id) ==
    IF incident_id = "" THEN audit_records
    ELSE SelectSeq(audit_records, LAMBDA r : r.incident_id = incident_id)

\* AuditStore.query
query(incident_id, page, page_size) ==
    LET records == SortByTimestamp(Filtered(incident_id), TRUE)
        start == (page - 1) * page_size
    IN  Slice(records, start, start + page_size)

\* AuditStore.count
count(incident_id) == Len(Filtered(incident_id))

\* POST /records
create_audit_record(incident_id) ==
    LET audit_record == AuditRecord(audit_created + 1, incident_id) IN
    /\ audit_created < MaxAuditRecords
    /\ audit_created' = audit_created + 1
    /\ audit_records' = add(audit_record)
    /\ audit_response' = AuditResponse("create", 201, incident_id,
                                       <<audit_record>>, 1)
    /\ UNCHANGED audit_clock

\* GET /records
list_audit_records(incident_id, page, page_size) ==
    /\ audit_response' = AuditResponse("list", 200, incident_id,
                            query(incident_id, page, page_size),
                            count(incident_id))
    /\ UNCHANGED <<audit_records, audit_created, audit_clock>>

\* GET /incidents/{incident_id}/timeline
get_incident_timeline(incident_id) ==
    LET records == query(incident_id, 1, timeline_page_size) IN
    /\ audit_response' = AuditResponse("timeline", 200, incident_id,
                            SortByTimestamp(records, FALSE), Len(records))
    /\ UNCHANGED <<audit_records, audit_created, audit_clock>>

\* the wall clock of the audit service is read later, or after it was set
AuditClock ==
    /\ \E t \in 1..MaxAuditClock : t # audit_clock /\ audit_clock' = t
    /\ UNCHANGED <<audit_records, audit_created, audit_response>>

\* the other two services do not change while the audit service steps
AuditStep ==
    UNCHANGED <<manager_vars, detector_vars, breaker_vars, healing_mode, healings, states, cooldowns,
                tasks, dispatched, trail, now, response, returns>>

InitAudit ==
    /\ audit_records = <<>>
    /\ audit_created = 0
    /\ audit_clock = 1
    /\ audit_response = AuditResponse("none", 0, "", <<>>, 0)

\* ------------------------------------------------------------------------
\* Monitoring service: AnomalyDetector (monitoring/src/core/anomaly_detector.py).
\* detect_anomalies contains no await, so a call is one step, and the clock
\* is read as one value during it.  The deduplication key
\* "namespace:service:type" is modelled by the triple.  Error rates are in
\* percent.  The event_id of an event is a fresh uuid4 and is left out.
\* ------------------------------------------------------------------------
MaxDetectorClock == 3

alert_cooldown_seconds == 2

thresholds ==
    [error_rate |-> 5, latency_p99_ms |-> 1000, latency_p95_ms |-> 500,
     cpu_percent |-> 80, memory_percent |-> 85, pod_restart_count |-> 3]

MetricValue(metric_type, value) == [metric_type |-> metric_type, value |-> value]

ServiceMetrics(service_name, namespace, metrics) ==
    [service_name |-> service_name, namespace |-> namespace, metrics |-> metrics]

_generate_anomaly_key(service, namespace, anomaly_type) ==
    <<namespace, service, anomaly_type>>

\* variant: an alert is still in cooldown when exactly the cooldown has elapsed
_is_in_cooldown_inclusive(recent, anomaly_key) ==
    IF anomaly_key \notin DOMAIN recent THEN FALSE
    ELSE detector_clock - recent[anomaly_key] <= alert_cooldown_seconds

_is_in_cooldown(recent, anomaly_key) ==
    IF anomaly_key \notin DOMAIN recent THEN FALSE
    ELSE detector_clock - recent[anomaly_key] < alert_cooldown_seconds

_record_anomaly(recent, anomaly_key) ==
    [k \in DOMAIN recent \cup {anomaly_key} |->
        IF k = anomaly_key THEN detector_clock ELSE recent[k]]

\* ratio = current_value / threshold_value, infinite for a zero threshold
RatioAtLeast(current_value, threshold_value, n) ==
    threshold_value = 0 \/ current_value >= n * threshold_value

_determine_severity(anomaly_type, current_value, threshold_value) ==
    IF anomaly_type = "error_rate_spike"
    THEN IF RatioAtLeast(current_value, threshold_value, 4) THEN "critical"
         ELSE IF RatioAtLeast(current_value, threshold_value, 2) THEN "high"
         ELSE "medium"
    ELSE IF anomaly_type = "latency_spike"
    THEN IF RatioAtLeast(current_value, threshold_value, 3) THEN "high"
         ELSE IF RatioAtLeast(current_value, threshold_value, 2) THEN "medium"
         ELSE "low"
    ELSE IF anomaly_type \in {"cpu_overload", "memory_overload"}
    THEN IF current_value >= 95 THEN "critical"
         ELSE IF current_value >= 90 THEN "high"
         ELSE "medium"
    ELSE "medium"

_create_anomaly_event(anomaly_type, service_name, namespace, metric_name, current_value, threshold_value) ==
    [timestamp |-> detector_clock,
     anomaly_type |-> anomaly_type,
     severity |-> _determine_severity(anomaly_type, current_value, threshold_value),
     target_service |-> service_name,
     target_namespace |-> namespace,
     metric_name |-> metric_name,
     current_value |-> current_value,
     threshold_value |-> threshold_value]

\* None
NoAnomaly == [anomaly_type |-> ""]

_check_metric(metric, service_name, namespace) ==
    IF metric.metric_type = "error_rate"
    THEN IF metric.value > thresholds.error_rate
         THEN _create_anomaly_event("error_rate_spike", service_name, namespace,
                    "error_rate", metric.value, thresholds.error_rate)
         ELSE NoAnomaly
    ELSE IF metric.metric_type = "latency_p99"
    THEN IF metric.value > thresholds.latency_p99_ms
         THEN _create_anomaly_event("latency_spike", service_name, namespace,
                    "latency_p99_ms", metric.value, thresholds.latency_p99_ms)
         ELSE NoAnomaly
    ELSE IF metric.metric_type = "latency_p95"
    THEN IF metric.value > thresholds.latency_p95_ms
         THEN _create_anomaly_event("latency_spike", service_name, namespace,
                    "latency_p95_ms", metric.value, thresholds.latency_p95_ms)
         ELSE NoAnomaly
    ELSE IF metric.metric_type = "cpu_usage"
    THEN IF metric.value > thresholds.cpu_percent
         THEN _create_anomaly_event("cpu_overload", service_name, namespace,
                    "cpu_percent", metric.value, thresholds.cpu_percent)
         ELSE NoAnomaly
    ELSE IF metric.metric_type = "memory_usage"
    THEN IF metric.value > thresholds.memory_percent
         THEN _create_anomaly_event("memory_overload", service_name, namespace,
                    "memory_percent", metric.value, thresholds.memory_percent)
         ELSE NoAnomaly
    ELSE IF metric.metric_type = "pod_restart_count"
    THEN IF metric.value > thresholds.pod_restart_count
         THEN _create_anomaly_event("pod_crash_loop", service_name, namespace,
                    "pod_restart_count", metric.value, thresholds.pod_restart_count)
         ELSE NoAnomaly
    ELSE NoAnomaly

\* the inner loop of detect_anomalies over the metrics of one service; acc
\* holds the anomalies list and _recent_anomalies as the loop has left them
RECURSIVE DetectMetrics(_, _, _, _)
DetectMetrics(metrics, service_name, namespace, acc) ==
    IF metrics = <<>> THEN acc
    ELSE LET detected == _check_metric(Head(metrics), service_name, namespace)
             anomaly_key == _generate_anomaly_key(service_name, namespace,
                                                  detected.anomaly_type)
             after == IF detected = NoAnomaly THEN acc
                      ELSE IF ~_is_in_cooldown(acc.recent, anomaly_key)
                      THEN [anomalies |-> Append(acc.anomalies, detected),
                            recent |-> _record_anomaly(acc.recent, anomaly_key)]
                      ELSE acc
         IN  DetectMetrics(Tail(metrics), service_name, namespace, after)

\* the outer loop, over the services
RECURSIVE DetectServices(_, _)
DetectServices(service_metrics, acc) ==
    IF service_metrics = <<>> THEN acc
    ELSE LET service == Head(service_metrics)
         IN  DetectServices(Tail(service_metrics),
                 DetectMetrics(service.metrics, service.service_name,
                               service.namespace, acc))

detect_anomalies(service_metrics) ==
    LET result == DetectServices(service_metrics,
                        [anomalies |-> <<>>, recent |-> _recent_anomalies])
    IN  /\ _recent_anomalies' = result.recent
        /\ detection' = [service_metrics |-> service_metrics,
                         anomalies |-> result.anomalies,
                         at |-> detector_clock]
        /\ alerts' = alerts \cup {result.anomalies[i] : i \in DOMAIN result.anomalies}
        /\ UNCHANGED detector_clock

DetectorTick ==
    /\ detector_clock < MaxDetectorClock
    /\ detector_clock' = detector_clock + 1
    /\ UNCHANGED <<_recent_anomalies, detection, alerts>>

DetectorStep ==
    UNCHANGED <<manager_vars, audit_vars, breaker_vars, healing_mode, healings,
                states, cooldowns, tasks, dispatched, trail, now, response,
                returns>>

InitDetector ==
    /\ _recent_anomalies = <<>>
    /\ detector_clock = 1
    /\ detection = [service_metrics |-> <<>>, anomalies |-> <<>>, at |-> 0]
    /\ alerts = {}

\* ------------------------------------------------------------------------
\* CircuitBreaker (shared/utils/retry.py).  Its methods are synchronous, so
\* each call is one step.  calls records every call with what can_execute
\* returned (TRUE for the methods that return nothing), the state property
\* after the call and the clock.  _last_failure_time None is NoTime.
\* ------------------------------------------------------------------------
MaxBreakerCalls == 6
MaxBreakerClock == 3

failure_threshold == 2

reset_timeout == 2

half_open_max_calls == 1

Called(op, result, state) ==
    /\ Len(calls) < MaxBreakerCalls
    /\ calls' = Append(calls, [op |-> op, result |-> result, state |-> state,
                               at |-> breaker_clock])
    /\ UNCHANGED breaker_clock

can_execute ==
    IF _state = "closed"
    THEN /\ Called("can_execute", TRUE, _state)
         /\ UNCHANGED <<_state, _failure_count, _last_failure_time, _half_open_calls>>
    ELSE IF _state = "open"
    THEN IF /\ _last_failure_time # NoTime
            /\ breaker_clock - _last_failure_time >= reset_timeout
         THEN /\ _state' = "half_open"
              /\ _half_open_calls' = 0
              /\ Called("can_execute", TRUE, "half_open")
              /\ UNCHANGED <<_failure_count, _last_failure_time>>
         ELSE /\ Called("can_execute", FALSE, _state)
              /\ UNCHANGED <<_state, _failure_count, _last_failure_time,
                             _half_open_calls>>
    ELSE /\ Called("can_execute", _half_open_calls < half_open_max_calls, _state)
         /\ UNCHANGED <<_state, _failure_count, _last_failure_time, _half_open_calls>>

\* variant: a success in the closed state leaves the failure count
record_success_keeps_count ==
    /\ IF _state = "half_open"
       THEN /\ _state' = "closed"
            /\ _failure_count' = 0
       ELSE UNCHANGED <<_state, _failure_count>>
    /\ Called("record_success", TRUE, _state')
    /\ UNCHANGED <<_last_failure_time, _half_open_calls>>

record_success ==
    /\ IF _state = "half_open"
       THEN /\ _state' = "closed"
            /\ _failure_count' = 0
       ELSE IF _state = "closed"
       THEN /\ _failure_count' = 0
            /\ UNCHANGED _state
       ELSE UNCHANGED <<_state, _failure_count>>
    /\ Called("record_success", TRUE, _state')
    /\ UNCHANGED <<_last_failure_time, _half_open_calls>>

record_failure ==
    /\ _failure_count' = _failure_count + 1
    /\ _last_failure_time' = breaker_clock
    /\ IF _state = "half_open"
       THEN _state' = "open"
       ELSE IF _state = "closed" /\ _failure_count' >= failure_threshold
       THEN _state' = "open"
       ELSE UNCHANGED _state
    /\ Called("record_failure", TRUE, _state')
    /\ UNCHANGED _half_open_calls

reset ==
    /\ _state' = "closed"
    /\ _failure_count' = 0
    /\ _last_failure_time' = NoTime
    /\ _half_open_calls' = 0
    /\ Called("reset", TRUE, "closed")

BreakerTick ==
    /\ breaker_clock < MaxBreakerClock
    /\ breaker_clock' = breaker_clock + 1
    /\ UNCHANGED <<_state, _failure_count, _last_failure_time, _half_open_calls,
                   calls>>

BreakerStep ==
    UNCHANGED <<manager_vars, audit_vars, detector_vars, healing_mode, healings,
                states, cooldowns, tasks, dispatched, trail, now, response,
                returns>>

InitBreaker ==
    /\ _state = "closed"
    /\ _failure_count = 0
    /\ _last_failure_time = NoTime
    /\ _half_open_calls = 0
    /\ breaker_clock = 1
    /\ calls = <<>>

\* ------------------------------------------------------------------------
\* Specification
\* ------------------------------------------------------------------------
InitAgent ==
    /\ healing_mode \in HealingModes
    /\ healings = <<>>
    /\ states = <<>>
    /\ cooldowns = [s \in Services |-> NoTime]
    /\ tasks = <<>>
    /\ dispatched = <<>>
    /\ trail = <<>>
    /\ now = 1
    /\ response = Response("none", NoRequest, 0, 0, "")
    /\ returns = <<>>

\* the agent alone: the incident manager is another process, here idle with
\* its default settings
Init ==
    /\ InitAgent
    /\ healing_enabled = TRUE
    /\ approval_required = FALSE
    /\ incidents = <<>>
    /\ posts = <<>>
    /\ manager_response = ManagerResponse("none", 0, "", "")
    /\ InitAudit
    /\ InitDetector
    /\ InitBreaker

Next ==
    \/ \E request_data \in HealingRequests :
            trigger_healing(request_data) /\ UNCHANGED <<manager_vars, audit_vars, detector_vars, breaker_vars>>
    \/ \E healing_id \in 1..MaxHealings :
            approve_healing_plan(healing_id)
                /\ Cardinality(ExecTasks') <= MaxApprovals
    \/ \E healing_id \in 1..MaxHealings : cancel_healing(healing_id)
    \/ \E t \in DOMAIN tasks : run_ooda_loop(t)
    \/ \E t \in DOMAIN tasks, outcome \in DispatchOutcomes : _act(t, outcome)
    \/ \E t \in DOMAIN tasks, outcome \in DispatchOutcomes :
            run_ooda_loop_complete(t, outcome)
    \/ \E t \in DOMAIN tasks : run_ooda_loop_except(t)
    \/ \E t \in DOMAIN tasks : generate_plan_only(t)
    \/ \E t \in DOMAIN tasks : generate_plan_only_except(t)
    \/ \E t \in DOMAIN tasks : analyze_only(t)
    \/ \E t \in DOMAIN tasks : analyze_only_except(t)
    \/ \E t \in DOMAIN tasks : execute_plan_no_plan(t)
    \/ \E t \in DOMAIN tasks : execute_plan(t)
    \/ \E t \in DOMAIN tasks, outcome \in DispatchOutcomes :
            execute_plan_complete(t, outcome)
    \/ \E t \in DOMAIN tasks : execute_plan_except(t)
    \/ Tick

Spec == Init /\ [][Next]_vars

\* ------------------------------------------------------------------------
\* One specification per healing mode: the mode is a setting, fixed for the
\* life of the process, and each mode schedules its own kind of task
\* ------------------------------------------------------------------------
InitAuto == Init /\ healing_mode = "auto"

NextAuto ==
    \/ \E request_data \in HealingRequests :
            trigger_healing(request_data) /\ UNCHANGED <<manager_vars, audit_vars, detector_vars, breaker_vars>>
    \/ \E healing_id \in 1..MaxHealings :
            approve_healing_plan(healing_id)
                /\ Cardinality(ExecTasks') <= MaxApprovals
    \/ \E healing_id \in 1..MaxHealings : cancel_healing(healing_id)
    \/ \E t \in DOMAIN tasks : run_ooda_loop(t)
    \/ \E t \in DOMAIN tasks, outcome \in DispatchOutcomes : _act(t, outcome)
    \/ \E t \in DOMAIN tasks, outcome \in DispatchOutcomes :
            run_ooda_loop_complete(t, outcome)
    \/ \E t \in DOMAIN tasks : run_ooda_loop_except(t)
    \/ Tick

SpecAuto == InitAuto /\ [][NextAuto]_vars

InitSemiAuto == Init /\ healing_mode = "semi_auto"

NextSemiAuto ==
    \/ \E request_data \in HealingRequests :
            trigger_healing(request_data) /\ UNCHANGED <<manager_vars, audit_vars, detector_vars, breaker_vars>>
    \/ \E healing_id \in 1..MaxHealings :
            approve_healing_plan(healing_id)
                /\ Cardinality(ExecTasks') <= MaxApprovals
    \/ \E healing_id \in 1..MaxHealings : cancel_healing(healing_id)
    \/ \E t \in DOMAIN tasks : generate_plan_only(t)
    \/ \E t \in DOMAIN tasks : generate_plan_only_except(t)
    \/ \E t \in DOMAIN tasks : execute_plan_no_plan(t)
    \/ \E t \in DOMAIN tasks : execute_plan(t)
    \/ \E t \in DOMAIN tasks, outcome \in DispatchOutcomes : _act(t, outcome)
    \/ \E t \in DOMAIN tasks, outcome \in DispatchOutcomes :
            execute_plan_complete(t, outcome)
    \/ \E t \in DOMAIN tasks : execute_plan_except(t)
    \/ Tick

SpecSemiAuto == InitSemiAuto /\ [][NextSemiAuto]_vars

InitManual == Init /\ healing_mode = "manual"

NextManual ==
    \/ \E request_data \in HealingRequests :
            trigger_healing(request_data) /\ UNCHANGED <<manager_vars, audit_vars, detector_vars, breaker_vars>>
    \/ \E healing_id \in 1..MaxHealings :
            approve_healing_plan(healing_id)
                /\ Cardinality(ExecTasks') <= MaxApprovals
    \/ \E healing_id \in 1..MaxHealings : cancel_healing(healing_id)
    \/ \E t \in DOMAIN tasks : analyze_only(t)
    \/ \E t \in DOMAIN tasks : analyze_only_except(t)
    \/ Tick

SpecManual == InitManual /\ [][NextManual]_vars

\* Auto mode under fair scheduling: the event loop runs every scheduled
\* task, and a POST to the executor returns or fails (it has a timeout), so
\* every task step that stays enabled is eventually taken.
MaxLiveHealings == 1

AutoTaskStep(t) ==
    /\ t \in DOMAIN tasks
    /\ \/ run_ooda_loop(t)
       \/ \E outcome \in DispatchOutcomes : _act(t, outcome)
       \/ \E outcome \in DispatchOutcomes : run_ooda_loop_complete(t, outcome)
       \/ run_ooda_loop_except(t)

NextAutoLive ==
    \/ \E request_data \in HealingRequests :
            /\ trigger_healing(request_data)
            /\ Len(healings') <= MaxLiveHealings
            /\ UNCHANGED <<manager_vars, audit_vars, detector_vars, breaker_vars>>
    \/ \E healing_id \in 1..MaxLiveHealings :
            approve_healing_plan(healing_id)
                /\ Cardinality(ExecTasks') <= MaxApprovals
    \/ \E healing_id \in 1..MaxLiveHealings : cancel_healing(healing_id)
    \/ \E t \in DOMAIN tasks : run_ooda_loop(t)
    \/ \E t \in DOMAIN tasks, outcome \in DispatchOutcomes : _act(t, outcome)
    \/ \E t \in DOMAIN tasks, outcome \in DispatchOutcomes :
            run_ooda_loop_complete(t, outcome)
    \/ \E t \in DOMAIN tasks : run_ooda_loop_except(t)
    \/ Tick

SpecAutoLive ==
    /\ InitAuto
    /\ [][NextAutoLive]_vars
    /\ \A t \in 1..MaxLiveHealings : WF_vars(AutoTaskStep(t))

\* Semi-auto mode under the same fair scheduling of the task steps; the
\* handlers (trigger, approve, cancel) are calls of clients and are not fair.
SemiAutoTaskStep(t) ==
    /\ t \in DOMAIN tasks
    /\ \/ generate_plan_only(t)
       \/ generate_plan_only_except(t)
       \/ execute_plan_no_plan(t)
       \/ execute_plan(t)
       \/ \E outcome \in DispatchOutcomes : _act(t, outcome)
       \/ \E outcome \in DispatchOutcomes : execute_plan_complete(t, outcome)
       \/ execute_plan_except(t)

NextSemiAutoLive ==
    \/ \E request_data \in HealingRequests :
            /\ trigger_healing(request_data)
            /\ Len(healings') <= MaxLiveHealings
            /\ UNCHANGED <<manager_vars, audit_vars, detector_vars, breaker_vars>>
    \/ \E healing_id \in 1..MaxLiveHealings :
            approve_healing_plan(healing_id)
                /\ Cardinality(ExecTasks') <= MaxApprovals
    \/ \E healing_id \in 1..MaxLiveHealings : cancel_healing(healing_id)
    \/ \E t \in DOMAIN tasks : generate_plan_only(t)
    \/ \E t \in DOMAIN tasks : generate_plan_only_except(t)
    \/ \E t \in DOMAIN tasks : execute_plan_no_plan(t)
    \/ \E t \in DOMAIN tasks : execute_plan(t)
    \/ \E t \in DOMAIN tasks, outcome \in DispatchOutcomes : _act(t, outcome)
    \/ \E t \in DOMAIN tasks, outcome \in DispatchOutcomes :
            execute_plan_complete(t, outcome)
    \/ \E t \in DOMAIN tasks : execute_plan_except(t)
    \/ Tick

SpecSemiAutoLive ==
    /\ InitSemiAuto
    /\ [][NextSemiAutoLive]_vars
    /\ \A t \in 1..(MaxLiveHealings + MaxApprovals) :
            WF_vars(SemiAutoTaskStep(t))

\* Semi-auto mode with repeated approvals of one healing: approve is a
\* request any client may repeat, and it is accepted as long as the status
\* is still deciding, that is until the first execution task starts.
MaxReapprovals == 2

NextSemiAutoReapprove ==
    \/ \E request_data \in HealingRequests :
            /\ trigger_healing(request_data)
            /\ Len(healings') <= MaxLiveHealings
            /\ UNCHANGED <<manager_vars, audit_vars, detector_vars, breaker_vars>>
    \/ \E healing_id \in 1..MaxLiveHealings :
            approve_healing_plan(healing_id)
                /\ Cardinality(ExecTasks') <= MaxReapprovals
    \/ \E healing_id \in 1..MaxLiveHealings : cancel_healing(healing_id)
    \/ \E t \in DOMAIN tasks : generate_plan_only(t)
    \/ \E t \in DOMAIN tasks : generate_plan_only_except(t)
    \/ \E t \in DOMAIN tasks : execute_plan_no_plan(t)
    \/ \E t \in DOMAIN tasks : execute_plan(t)
    \/ \E t \in DOMAIN tasks, outcome \in DispatchOutcomes : _act(t, outcome)
    \/ \E t \in DOMAIN tasks, outcome \in DispatchOutcomes :
            execute_plan_complete(t, outcome)
    \/ \E t \in DOMAIN tasks : execute_plan_except(t)
    \/ Tick

SpecSemiAutoReapprove == InitSemiAuto /\ [][NextSemiAutoReapprove]_vars

\* ------------------------------------------------------------------------
\* Incident manager (services/incident-manager): the incident store, the
\* two ingest handlers, update, close and the manual heal.  Its handlers
\* are async functions on one event loop; the only await is the POST of
\* _trigger_healing to the agent, so a handler is one step up to that POST
\* and one step after it.
\* ------------------------------------------------------------------------
MaxSignals == 3
MaxHeals == 1
MaxClock == 3
MaxLiveIncidents == 1

incident_correlation_window_minutes == 1

Namespaces == {"default", "staging"}

IncidentStatuses ==
    {"new", "analyzing", "healing", "awaiting_approval", "resolved", "failed"}

\* the statuses the clients of PATCH send here
PatchStatuses == {"new", "resolved", "failed"}

\* the (target_service, target_namespace) pairs of the signals
Targets ==
    {<<"checkout", "default">>, <<"checkout", "staging">>,
     <<"payments", "default">>}

\* uuid4(), by order of generation
IncidentIds == <<"inc-1", "inc-2", "inc-3", "inc-4">>

\* the id a source gives to its n-th signal
EventIds == <<"evt-1", "evt-2", "evt-3", "evt-4">>

RECURSIVE EventTotal(_)
EventTotal(k) ==
    IF k = 0 THEN 0 ELSE Len(incidents[k].event_ids) + EventTotal(k - 1)

\* every ingest leaves its event id in exactly one incident
Ingested == EventTotal(Len(incidents))

AnomalyEventInput(target_service, target_namespace) ==
    [event_id |-> EventIds[Ingested + 1],
     anomaly_type |-> "error_rate_spike",
     severity |-> "high",
     target_service |-> target_service,
     target_namespace |-> target_namespace]

LogAnalysisEventInput(service_name, namespace, error_count) ==
    [event_id |-> EventIds[Ingested + 1],
     service_name |-> service_name,
     namespace |-> namespace,
     error_count |-> error_count,
     severity |-> "high",
     root_cause |-> "database",
     recommended_actions |-> <<"restart">>]

\* IncidentSeverity(event.severity) if it is a member, else MEDIUM
IncidentSeverity(severity) ==
    IF severity \in {"critical", "high", "medium", "low"} THEN severity
    ELSE "medium"

Incident(status, severity, target_service, target_namespace, event_id, event_count, root_cause, healing_actions) ==
    [incident_id |-> IncidentIds[Len(incidents) + 1],
     status |-> status,
     severity |-> severity,
     target_service |-> target_service,
     target_namespace |-> target_namespace,
     created_at |-> now,
     updated_at |-> now,
     resolved_at |-> FALSE,
     event_ids |-> <<event_id>>,
     event_count |-> event_count,
     root_cause |-> root_cause,
     healing_actions |-> healing_actions]

\* IncidentStore; an incident is named by its position in the store.
\* resolved_at is modelled by whether it is stamped.
create_incident(incident) == Append(incidents, incident)

get_incident(k) == k \in DOMAIN incidents

update_incident(store, k, status, resolved_at, root_cause, healing_actions) ==
    [store EXCEPT ![k].status = status,
                  ![k].updated_at = now,
                  ![k].resolved_at = resolved_at,
                  ![k].root_cause = root_cause,
                  ![k].healing_actions = healing_actions]

\* variant: the new event id replaces the list
add_event_to_incident_replaces(k, event_id) ==
    [incidents EXCEPT ![k].event_ids = <<event_id>>,
                      ![k].event_count = 1,
                      ![k].updated_at = now]

add_event_to_incident(k, event_id) ==
    [incidents EXCEPT ![k].event_ids = Append(@, event_id),
                      ![k].event_count = Len(incidents[k].event_ids) + 1,
                      ![k].updated_at = now]

\* variant: the window is measured from the last update
find_related_incident_from_updated_at(service, namespace, window_minutes) ==
    LET cutoff == now - window_minutes
        related == {k \in DOMAIN incidents :
                      /\ incidents[k].status \notin {"resolved", "failed"}
                      /\ incidents[k].target_service = service
                      /\ incidents[k].target_namespace = namespace
                      /\ incidents[k].updated_at >= cutoff}
    IN  IF related = {} THEN 0
        ELSE CHOOSE k \in related : \A j \in related : k <= j

\* variant: an incident whose creating handler is still awaiting its POST
\* is not seen, as if the lookup had run before that handler's create
find_related_incident_stale(service, namespace, window_minutes) ==
    LET cutoff == now - window_minutes
        related == {k \in DOMAIN incidents :
                      /\ incidents[k].status \notin {"resolved", "failed"}
                      /\ incidents[k].target_service = service
                      /\ incidents[k].target_namespace = namespace
                      /\ incidents[k].created_at >= cutoff
                      /\ ~\E p \in DOMAIN posts :
                            /\ posts[p].state # "returned"
                            /\ posts[p].request.incident_id
                                    = incidents[k].incident_id}
    IN  IF related = {} THEN 0
        ELSE CHOOSE k \in related : \A j \in related : k <= j

\* the first incident, in insertion order, that is not resolved or failed,
\* has the target and was created within the window; 0 for None
find_related_incident(service, namespace, window_minutes) ==
    LET cutoff == now - window_minutes
        related == {k \in DOMAIN incidents :
                      /\ incidents[k].status \notin {"resolved", "failed"}
                      /\ incidents[k].target_service = service
                      /\ incidents[k].target_namespace = namespace
                      /\ incidents[k].created_at >= cutoff}
    IN  IF related = {} THEN 0
        ELSE CHOOSE k \in related : \A j \in related : k <= j

\* the JSON body of the POST to the agent; force is not sent
TriggerBody(incident) ==
    [incident_id |-> incident.incident_id,
     target_service |-> incident.target_service,
     severity |-> incident.severity,
     root_cause |-> incident.root_cause,
     recommended_actions |-> incident.healing_actions,
     force |-> FALSE]

\* _trigger_healing up to its await: the POST is on its way
_trigger_healing(op, incident) ==
    Append(posts, [op |-> op, request |-> TriggerBody(incident),
                   state |-> "sent", code |-> 0])

\* variant: the trigger is requested whenever healing is enabled
Created_ignores_approval(op, store) ==
    LET incident == store[Len(store)] IN
    /\ incidents' = store
    /\ IF healing_enabled
       THEN /\ posts' = _trigger_healing(op, incident)
            /\ UNCHANGED manager_response
       ELSE /\ manager_response' =
                    ManagerResponse(op, 202, "created", incident.incident_id)
            /\ UNCHANGED posts

Created(op, store) ==
    LET incident == store[Len(store)] IN
    /\ incidents' = store
    /\ IF healing_enabled /\ ~approval_required
       THEN /\ posts' = _trigger_healing(op, incident)
            /\ UNCHANGED manager_response
       ELSE /\ manager_response' =
                    ManagerResponse(op, 202, "created", incident.incident_id)
            /\ UNCHANGED posts

Correlated(op, store, k) ==
    /\ incidents' = store
    /\ manager_response' =
            ManagerResponse(op, 202, "correlated", store[k].incident_id)
    /\ UNCHANGED posts

\* the root cause text "Possible cause: <anomaly_type>" is modelled by the
\* keyword it contains
receive_anomaly_event(event) ==
    LET existing == find_related_incident(event.target_service,
                        event.target_namespace,
                        incident_correlation_window_minutes)
    IN
    /\ IF existing # 0
       THEN Correlated("anomaly", add_event_to_incident(existing, event.event_id),
                       existing)
       ELSE Created("anomaly",
                create_incident(Incident("new", IncidentSeverity(event.severity),
                    event.target_service, event.target_namespace,
                    event.event_id, 1, event.anomaly_type, <<>>)))
    /\ UNCHANGED <<healing_enabled, approval_required>>

receive_log_analysis_event(event) ==
    LET existing == find_related_incident(event.service_name, event.namespace,
                        incident_correlation_window_minutes)
    IN
    /\ IF existing # 0
       THEN Correlated("log_analysis",
                update_incident(add_event_to_incident(existing, event.event_id),
                    existing, incidents[existing].status,
                    incidents[existing].resolved_at, event.root_cause,
                    event.recommended_actions),
                existing)
       ELSE Created("log_analysis",
                create_incident(Incident("analyzing",
                    IncidentSeverity(event.severity),
                    event.service_name, event.namespace, event.event_id,
                    event.error_count, event.root_cause,
                    event.recommended_actions)))
    /\ UNCHANGED <<healing_enabled, approval_required>>

\* PATCH /incidents/{id} with a status
patch_incident(k, status) ==
    /\ IF ~get_incident(k)
       THEN /\ manager_response' = ManagerResponse("update", 404, "", "")
            /\ UNCHANGED incidents
       ELSE /\ incidents' = update_incident(incidents, k, status,
                    (status = "resolved") \/ incidents[k].resolved_at,
                    incidents[k].root_cause, incidents[k].healing_actions)
            /\ manager_response' =
                    ManagerResponse("update", 200, "", incidents[k].incident_id)
    /\ UNCHANGED <<healing_enabled, approval_required, posts>>

\* DELETE /incidents/{id}
close_incident(k) ==
    /\ IF ~get_incident(k)
       THEN /\ manager_response' = ManagerResponse("close", 404, "", "")
            /\ UNCHANGED incidents
       ELSE /\ incidents' = update_incident(incidents, k, "resolved", TRUE,
                    incidents[k].root_cause, incidents[k].healing_actions)
            /\ manager_response' =
                    ManagerResponse("close", 200, "closed",
                                    incidents[k].incident_id)
    /\ UNCHANGED <<healing_enabled, approval_required, posts>>

HealPosts == {p \in DOMAIN posts : posts[p].op = "heal"}

\* POST /incidents/{id}/heal up to the await of _trigger_healing
trigger_incident_healing(k) ==
    /\ IF ~get_incident(k)
       THEN /\ manager_response' = ManagerResponse("heal", 404, "", "")
            /\ UNCHANGED posts
       ELSE IF incidents[k].status = "resolved"
       THEN /\ manager_response' =
                    ManagerResponse("heal", 400, "already_resolved",
                                    incidents[k].incident_id)
            /\ UNCHANGED posts
       ELSE /\ Cardinality(HealPosts) < MaxHeals
            /\ posts' = _trigger_healing("heal", incidents[k])
            /\ UNCHANGED manager_response
    /\ UNCHANGED <<healing_enabled, approval_required, incidents>>

ManagerStep ==
    UNCHANGED <<healing_mode, healings, states, cooldowns, tasks, dispatched,
                trail, now, response, returns, audit_vars, detector_vars, breaker_vars>>

\* the agent handles the POST of the manager: its trigger handler runs
agent_answers(p) ==
    /\ posts[p].state = "sent"
    /\ trigger_healing(posts[p].request)
    /\ posts' = [posts EXCEPT ![p].state = "answered",
                              ![p].code = response'.code]
    /\ UNCHANGED <<healing_enabled, approval_required, incidents,
                   manager_response, audit_vars, detector_vars, breaker_vars>>

\* the POST raises instead (no connection, timeout)
post_raises(p) ==
    /\ posts[p].state = "sent"
    /\ posts' = [posts EXCEPT ![p].state = "raised"]
    /\ UNCHANGED <<healing_enabled, approval_required, incidents,
                   manager_response>>
    /\ ManagerStep

\* _trigger_healing returns to the handler that awaited it; whatever it
\* returns, an ingest answers created and the manual heal healing_triggered
_trigger_healing_returns(p) ==
    /\ posts[p].state \in {"answered", "raised"}
    /\ posts' = [posts EXCEPT ![p].state = "returned"]
    /\ manager_response' =
            IF posts[p].op = "heal"
            THEN ManagerResponse("heal", 200, "healing_triggered",
                                 posts[p].request.incident_id)
            ELSE ManagerResponse(posts[p].op, 202, "created",
                                 posts[p].request.incident_id)
    /\ UNCHANGED <<healing_enabled, approval_required, incidents>>
    /\ ManagerStep

\* a client that has read an incident sends its own trigger to the agent
direct_trigger(k, force) ==
    /\ get_incident(k)
    /\ trigger_healing([TriggerBody(incidents[k]) EXCEPT !.force = force])
    /\ UNCHANGED <<manager_vars, audit_vars, detector_vars, breaker_vars>>

ManagerTick ==
    /\ now < MaxClock
    /\ now' = now + 1
    /\ UNCHANGED <<manager_vars, audit_vars, detector_vars, breaker_vars, healing_mode, healings, states, cooldowns,
                   tasks, dispatched, trail, response, returns>>

\* The incident store by itself: healing is disabled, so no ingest POSTs to
\* the agent.
InitStore ==
    /\ InitAgent
    /\ healing_mode = "auto"
    /\ healing_enabled = FALSE
    /\ approval_required = FALSE
    /\ incidents = <<>>
    /\ posts = <<>>
    /\ manager_response = ManagerResponse("none", 0, "", "")
    /\ InitAudit
    /\ InitDetector
    /\ InitBreaker

NextStore ==
    \/ \E target \in Targets :
            /\ Ingested < MaxSignals
            /\ receive_anomaly_event(AnomalyEventInput(target[1], target[2]))
            /\ Len(incidents') <= MaxLiveIncidents + 1
            /\ ManagerStep
    \/ \E target \in Targets, error_count \in {1, 3} :
            /\ Ingested < MaxSignals
            /\ receive_log_analysis_event(
                    LogAnalysisEventInput(target[1], target[2], error_count))
            /\ Len(incidents') <= MaxLiveIncidents + 1
            /\ ManagerStep
    \/ \E k \in 1..MaxSignals, status \in PatchStatuses :
            patch_incident(k, status) /\ ManagerStep
    \/ \E k \in 1..MaxSignals : close_incident(k) /\ ManagerStep
    \/ ManagerTick

SpecStore == InitStore /\ [][NextStore]_vars

\* Ingests and the passage of time alone: nobody updates or closes
NextIngest ==
    \/ \E target \in Targets :
            /\ Ingested < MaxSignals
            /\ receive_anomaly_event(AnomalyEventInput(target[1], target[2]))
            /\ ManagerStep
    \/ \E target \in Targets, error_count \in {1, 3} :
            /\ Ingested < MaxSignals
            /\ receive_log_analysis_event(
                    LogAnalysisEventInput(target[1], target[2], error_count))
            /\ ManagerStep
    \/ ManagerTick

SpecIngest == InitStore /\ [][NextIngest]_vars

\* The incident manager with the agent behind it: the ingests and the
\* manual heal POST to the agent's trigger handler.
InitManager ==
    /\ InitAgent
    /\ healing_mode = "auto"
    /\ healing_enabled \in BOOLEAN
    /\ approval_required \in BOOLEAN
    /\ incidents = <<>>
    /\ posts = <<>>
    /\ manager_response = ManagerResponse("none", 0, "", "")
    /\ InitAudit
    /\ InitDetector
    /\ InitBreaker

NextManager ==
    \/ \E target \in Targets :
            /\ Ingested < MaxSignals
            /\ receive_anomaly_event(AnomalyEventInput(target[1], target[2]))
            /\ Len(incidents') <= MaxLiveIncidents
            /\ ManagerStep
    \/ \E target \in Targets, error_count \in {1} :
            /\ Ingested < MaxSignals
            /\ receive_log_analysis_event(
                    LogAnalysisEventInput(target[1], target[2], error_count))
            /\ Len(incidents') <= MaxLiveIncidents
            /\ ManagerStep
    \/ \E k \in 1..MaxLiveIncidents, status \in PatchStatuses :
            patch_incident(k, status) /\ ManagerStep
    \/ \E k \in 1..MaxLiveIncidents : close_incident(k) /\ ManagerStep
    \/ \E k \in 1..MaxLiveIncidents : trigger_incident_healing(k) /\ ManagerStep
    \/ \E p \in DOMAIN posts :
            agent_answers(p) /\ Len(healings') <= MaxLiveHealings
    \/ \E p \in DOMAIN posts : post_raises(p)
    \/ \E p \in DOMAIN posts : _trigger_healing_returns(p)
    \/ \E k \in DOMAIN incidents, force \in BOOLEAN :
            direct_trigger(k, force) /\ Len(healings') <= MaxLiveHealings
    \/ Tick

SpecManager == InitManager /\ [][NextManager]_vars

\* The pipeline from ingest to the end of the healing: the manager with its
\* default settings, the agent in auto mode, and fair scheduling of the
\* engine's tasks and of the POST of _trigger_healing (it has a timeout, so
\* it is answered or raises, and then returns).  Clients may close an
\* incident at any time; nothing makes them.
PostStep(p) ==
    /\ p \in DOMAIN posts
    /\ \/ agent_answers(p) /\ Len(healings') <= MaxLiveHealings
       \/ post_raises(p)
       \/ _trigger_healing_returns(p)

InitPipeline ==
    /\ InitManager
    /\ healing_enabled
    /\ ~approval_required

NextPipeline ==
    \/ \E target \in Targets :
            /\ Ingested < MaxSignals
            /\ receive_anomaly_event(AnomalyEventInput(target[1], target[2]))
            /\ Len(incidents') <= MaxLiveIncidents
            /\ ManagerStep
    \/ \E target \in Targets, error_count \in {1} :
            /\ Ingested < MaxSignals
            /\ receive_log_analysis_event(
                    LogAnalysisEventInput(target[1], target[2], error_count))
            /\ Len(incidents') <= MaxLiveIncidents
            /\ ManagerStep
    \/ \E k \in 1..MaxLiveIncidents : close_incident(k) /\ ManagerStep
    \/ \E p \in DOMAIN posts :
            agent_answers(p) /\ Len(healings') <= MaxLiveHealings
    \/ \E p \in DOMAIN posts : post_raises(p)
    \/ \E p \in DOMAIN posts : _trigger_healing_returns(p)
    \/ \E t \in DOMAIN tasks : run_ooda_loop(t)
    \/ \E t \in DOMAIN tasks, outcome \in DispatchOutcomes : _act(t, outcome)
    \/ \E t \in DOMAIN tasks, outcome \in DispatchOutcomes :
            run_ooda_loop_complete(t, outcome)
    \/ \E t \in DOMAIN tasks : run_ooda_loop_except(t)
    \/ Tick

SpecPipeline ==
    /\ InitPipeline
    /\ [][NextPipeline]_vars
    /\ \A t \in 1..MaxLiveHealings : WF_vars(AutoTaskStep(t))
    /\ \A p \in 1..MaxLiveIncidents : WF_vars(PostStep(p))

\* The audit service by itself, with clients that create records, list
\* them and read timelines.
NextAudit ==
    \/ \E incident_id \in AuditIncidents :
            create_audit_record(incident_id) /\ AuditStep
    \/ \E incident_id \in AuditIncidents \cup {""}, page \in 1..2,
          page_size \in 1..2 :
            list_audit_records(incident_id, page, page_size) /\ AuditStep
    \/ \E incident_id \in AuditIncidents :
            get_incident_timeline(incident_id) /\ AuditStep
    \/ AuditClock /\ AuditStep

SpecAudit == InitStore /\ [][NextAudit]_vars

\* The decision maker over its inputs: the first healing in semi-auto mode,
\* whose request carries any of these root causes and any list of at most
\* MaxHints of these hints; its task observes, orients and decides.
MaxHints == 3

RootCauses == {"", "error_rate_spike", "pod_crash_loop", "database", "disk_full"}

\* texts of recommended actions; "timeout" names no action and is a pattern
\* of the cause table
Hints == {"restart", "scale", "rollback", "circuit", "timeout"}

HintLists == UNION {[1..n -> Hints] : n \in 0..MaxHints}

DecisionRequests ==
    {[incident_id |-> "inc-1", target_service |-> "checkout",
      severity |-> "high", root_cause |-> root_cause,
      recommended_actions |-> recommended_actions, force |-> FALSE] :
        root_cause \in RootCauses, recommended_actions \in HintLists}

NextDecide ==
    \/ \E request_data \in DecisionRequests :
            /\ healings = <<>>
            /\ trigger_healing(request_data)
            /\ UNCHANGED <<manager_vars, audit_vars, detector_vars, breaker_vars>>
    \/ \E t \in DOMAIN tasks : generate_plan_only(t)
    \/ \E t \in DOMAIN tasks : generate_plan_only_except(t)

SpecDecide == InitSemiAuto /\ [][NextDecide]_vars

\* The decision maker called again: healings in semi-auto mode that are
\* planned, cancelled and followed by another, with requests that repeat.
RepeatHintLists == {<<>>, <<"scale">>, <<"rollback", "restart">>}

RepeatRequests ==
    {[incident_id |-> incident_id, target_service |-> "checkout",
      severity |-> "high", root_cause |-> root_cause,
      recommended_actions |-> recommended_actions, force |-> FALSE] :
        incident_id \in Incidents, root_cause \in RootCauses,
        recommended_actions \in RepeatHintLists}

NextDecideAgain ==
    \/ \E request_data \in RepeatRequests :
            /\ trigger_healing(request_data)
            /\ response'.code = 200
            /\ UNCHANGED <<manager_vars, audit_vars, detector_vars, breaker_vars>>
    \/ \E healing_id \in 1..MaxHealings :
            get_healing(healing_id) /\ cancel_healing(healing_id)
    \/ \E t \in DOMAIN tasks : generate_plan_only(t)
    \/ \E t \in DOMAIN tasks : generate_plan_only_except(t)

SpecDecideAgain == InitSemiAuto /\ [][NextDecideAgain]_vars

\* Ingests that overlap: healing is enabled without approval, so the handler
\* of an ingest that creates an incident suspends at its POST to the agent,
\* and further ingests are handled while it is suspended.
InitOverlap == InitManager /\ healing_enabled /\ ~approval_required

NextOverlap ==
    \/ \E target \in Targets :
            /\ Ingested < MaxSignals
            /\ receive_anomaly_event(AnomalyEventInput(target[1], target[2]))
            /\ Len(incidents') <= MaxLiveIncidents + 1
            /\ ManagerStep
    \/ \E target \in Targets, error_count \in {1} :
            /\ Ingested < MaxSignals
            /\ receive_log_analysis_event(
                    LogAnalysisEventInput(target[1], target[2], error_count))
            /\ Len(incidents') <= MaxLiveIncidents + 1
            /\ ManagerStep
    \/ \E p \in DOMAIN posts :
            agent_answers(p) /\ Len(healings') <= MaxLiveHealings
    \/ \E p \in DOMAIN posts : post_raises(p)
    \/ \E p \in DOMAIN posts : _trigger_healing_returns(p)
    \/ Tick

SpecOverlap == InitOverlap /\ [][NextOverlap]_vars

\* The anomaly detector: polls and checks hand it the metrics of one service
\* (one or two of them) or of two services (one metric each), as time
\* passes.  The metrics are an error rate at and above its threshold and a
\* P99 and a P95 latency above theirs, which share the type latency_spike.
MetricInputs ==
    {MetricValue("error_rate", 5), MetricValue("error_rate", 10),
     MetricValue("latency_p99", 1200), MetricValue("latency_p95", 1600)}

MetricPairs ==
    {<<MetricValue("error_rate", 10), MetricValue("error_rate", 10)>>,
     <<MetricValue("error_rate", 10), MetricValue("latency_p95", 1600)>>,
     <<MetricValue("latency_p99", 1200), MetricValue("latency_p95", 1600)>>}

ServiceMetricsInputs ==
    {<<ServiceMetrics(s, "default", <<m>>)>> : s \in Services, m \in MetricInputs}
    \cup {<<ServiceMetrics(s, "default", ms)>> : s \in Services, ms \in MetricPairs}
    \cup {<<ServiceMetrics("checkout", "default", <<ms[1]>>),
            ServiceMetrics(s, "default", <<ms[2]>>)>> :
            s \in Services, ms \in MetricPairs}

NextDetector ==
    \/ \E service_metrics \in ServiceMetricsInputs :
            detect_anomalies(service_metrics) /\ DetectorStep
    \/ DetectorTick /\ DetectorStep

SpecDetector == InitStore /\ [][NextDetector]_vars

\* The circuit breaker under any sequence of calls, as time passes
NextBreaker ==
    \/ can_execute /\ BreakerStep
    \/ record_success /\ BreakerStep
    \/ record_failure /\ BreakerStep
    \/ reset /\ BreakerStep
    \/ BreakerTick /\ BreakerStep

SpecBreaker == InitStore /\ [][NextBreaker]_vars

\* Auto mode with the read endpoints: healings are triggered, run, fail or
\* are cancelled while clients read the history and the statistics.
NextHistory ==
    \/ \E request_data \in HealingRequests :
            /\ trigger_healing(request_data)
            /\ response'.code = 200
            /\ UNCHANGED <<manager_vars, audit_vars, detector_vars, breaker_vars>>
    \/ \E healing_id \in 1..MaxHealings :
            get_healing(healing_id) /\ cancel_healing(healing_id)
    \/ \E t \in DOMAIN tasks : run_ooda_loop(t)
    \/ \E t \in DOMAIN tasks, outcome \in DispatchOutcomes : _act(t, outcome)
    \/ \E t \in DOMAIN tasks, outcome \in DispatchOutcomes :
            run_ooda_loop_complete(t, outcome)
    \/ \E t \in DOMAIN tasks : run_ooda_loop_except(t)
    \/ \E service \in Services \cup {""}, limit \in 0..MaxLimit :
            get_healing_history(service, limit)
    \/ get_healing_stats
    \/ Tick

SpecHistory == InitAuto /\ [][NextHistory]_vars


\* ------------------------------------------------------------------------
\* Properties.  They read the registry directly, not through the engine's
\* own read operations.
\* ------------------------------------------------------------------------
NonTerminal(h) == healings[h].status \notin TerminalStatuses

Active == {h \in DOMAIN healings : NonTerminal(h)}

HealingsOf(incident_id) ==
    {h \in DOMAIN healings : healings[h].incident_id = incident_id}

ActiveOf(incident_id) == HealingsOf(incident_id) \cap Active

CooldownActive(service) ==
    /\ service \in Services
    /\ cooldowns[service] > now

Registered == Len(healings') = Len(healings) + 1

\* this step is a trigger_healing call (a call that repeats the previous
\* response and registers nothing changes no variable)
TriggerAnswered ==
    /\ response'.op = "trigger"
    /\ response' # response \/ Len(healings') # Len(healings)

\* this step is an approve_healing_plan call
ApproveAnswered ==
    /\ response'.op = "approve"
    /\ \/ response' # response
       \/ Len(tasks') > Len(tasks) /\ Len(healings') = Len(healings)

RegistryUnchanged ==
    /\ healings' = healings
    /\ states' = states
    /\ tasks' = tasks
    /\ cooldowns' = cooldowns

\* C1 - admission mutual exclusion: a trigger for an incident that has a
\* non-terminal healing is answered 409 already_healing and registers
\* nothing, and no step registers a healing for an incident while one of
\* its healings is non-terminal; so of two triggers for a fresh incident
\* exactly one registers.
C1_AdmissionMutualExclusion ==
    [][ /\ (TriggerAnswered /\ ActiveOf(response'.request.incident_id) # {})
            => /\ response'.code = 409
               /\ response'.detail = "already_healing"
               /\ RegistryUnchanged
        /\ \A i \in Incidents :
            ActiveOf(i) # {} => HealingsOf(i)' = HealingsOf(i)
      ]_vars

C1_Witness ==
    /\ Len(healings) = 1
    /\ NonTerminal(1)
    /\ response.op = "trigger"
    /\ response.code = 409
    /\ response.request.incident_id = healings[1].incident_id

\* C2 - at most one healing per incident is in a non-terminal status.
C2_OneActiveHealingPerIncident ==
    \A i \in Incidents : Cardinality(ActiveOf(i)) <= 1

\* C3 - concurrency cap: with max_concurrent_healings healings non-terminal,
\* a trigger for an incident that is not being healed is answered 429
\* concurrency_limit and registers nothing; a healing is registered only
\* when fewer than max_concurrent_healings are non-terminal.
C3_ConcurrencyCap ==
    [][ /\ (/\ TriggerAnswered
            /\ ActiveOf(response'.request.incident_id) = {}
            /\ Cardinality(Active) >= max_concurrent_healings)
            => /\ response'.code = 429
               /\ response'.detail = "concurrency_limit"
               /\ RegistryUnchanged
        /\ Registered => Cardinality(Active) < max_concurrent_healings
      ]_vars

C3_Witness ==
    /\ response.op = "trigger"
    /\ response.detail = "concurrency_limit"
    /\ Cardinality(Active) >= max_concurrent_healings
    /\ HealingsOf(response.request.incident_id) = {}

\* C4 - cooldown enforcement: whenever a healing becomes completed or
\* failed, the cooldown of its target service is set to now +
\* cooldown_minutes in the same step.
C4_CooldownSetOnFinish ==
    [][ \A h \in DOMAIN healings :
            (/\ healings[h].status \notin {"completed", "failed"}
             /\ healings'[h].status \in {"completed", "failed"})
            => cooldowns'[IncidentService(healings[h].incident_id)]
                    = now + cooldown_minutes
      ]_vars

\* C5 - force override: a forced trigger is rejected as already_healing or
\* concurrency_limit exactly as an unforced one, and otherwise it is
\* admitted and registers a healing, also when the service is in cooldown.
C5_ForceOverride ==
    [][ (TriggerAnswered /\ response'.request.force)
            => IF ActiveOf(response'.request.incident_id) # {}
               THEN response'.detail = "already_healing" /\ RegistryUnchanged
               ELSE IF Cardinality(Active) >= max_concurrent_healings
               THEN response'.detail = "concurrency_limit" /\ RegistryUnchanged
               ELSE /\ response'.code = 200
                    /\ Registered
                    /\ healings'[Len(healings')].incident_id
                            = response'.request.incident_id
                    /\ cooldowns' = cooldowns
      ]_vars

C5_Witness ==
    /\ response.op = "trigger"
    /\ response.code = 200
    /\ response.request.force
    /\ CooldownActive(response.request.target_service)
    /\ healings[Len(healings)].incident_id = response.request.incident_id

\* C6 - order of the admission rules: already_healing wins over the cap and
\* the cooldown, concurrency_limit wins over the cooldown, cooldown_active
\* is the answer when only the cooldown rule fails; a rejected trigger
\* registers nothing and changes no cooldown.
C6_AdmissionOrder ==
    [][ TriggerAnswered =>
          LET i == response'.request.incident_id
              x == response'.request.target_service
              capped == Cardinality(Active) >= max_concurrent_healings
          IN  /\ (ActiveOf(i) # {} /\ (capped \/ CooldownActive(x)))
                    => response'.code = 409 /\ response'.detail = "already_healing"
              /\ (ActiveOf(i) = {} /\ capped /\ CooldownActive(x))
                    => response'.code = 429 /\ response'.detail = "concurrency_limit"
              /\ (ActiveOf(i) = {} /\ ~capped /\ CooldownActive(x)
                    /\ ~response'.request.force)
                    => response'.code = 429 /\ response'.detail = "cooldown_active"
              /\ response'.code # 200 => RegistryUnchanged /\ dispatched' = dispatched
      ]_vars

C6_Witness ==
    /\ response.op = "trigger"
    /\ response.detail = "concurrency_limit"
    /\ CooldownActive(response.request.target_service)
    /\ ~response.request.force

\* C7 - manual mode gating: no healing is ever acting or validating, none
\* has a plan, nothing is dispatched, the counters stay 0, no execution
\* task exists, and a healing whose analysis ended without an exception was
\* completed right after Orient.
TaskOf(h) == CHOOSE t \in DOMAIN tasks :
                tasks[t].healing_id = h /\ tasks[t].kind # "execute_plan"

C7_ManualGating ==
    healing_mode = "manual" =>
        /\ \A t \in DOMAIN tasks : tasks[t].kind = "analyze_only"
        /\ \A h \in DOMAIN healings :
            /\ healings[h].status \in {"orienting", "completed", "failed", "cancelled"}
            /\ healings[h].plan = NoPlan
            /\ healings[h].actions_executed = 0
            /\ healings[h].actions_successful = 0
            /\ dispatched[h] = <<>>
            /\ states[h].phase \in {"pending", "observe", "orient"}
            /\ (tasks[TaskOf(h)].pc = "done" /\ healings[h].error_message = "")
                => /\ trail[h] = <<"completed">>
                   /\ states[h].phase = "orient"
                   /\ healings[h].status \in {"completed", "cancelled"}

C7_Witness ==
    /\ healing_mode = "manual"
    /\ response.op = "approve"
    /\ response.code = 400
    /\ response.healing_id \in DOMAIN healings
    /\ healings[response.healing_id].status = "completed"
    /\ healings[response.healing_id].result_message
            = "Analysis complete. Manual action required."


\* C8 - semi-auto gating: generate_plan_only ends (without an exception)
\* with the plan stored and the status deciding; a healing for which no
\* approve was accepted has nothing dispatched and is never acting,
\* validating or completed; and once its plan is generated, only
\* cancel(healing_id) changes its HealingResult until an approve for it is
\* accepted.
PlanTaskDone(h) == tasks[TaskOf(h)].pc = "done"

Approved(h) ==
    \E t \in DOMAIN tasks :
        tasks[t].kind = "execute_plan" /\ tasks[t].healing_id = h

C8_SemiAutoGating ==
    /\ [](healing_mode = "semi_auto" =>
            \A h \in DOMAIN healings :
                ~Approved(h) =>
                    /\ dispatched[h] = <<>>
                    /\ healings[h].actions_executed = 0
                    /\ healings[h].status \in {"deciding", "failed", "cancelled"})
    /\ [][healing_mode = "semi_auto" =>
            \A h \in DOMAIN healings :
                /\ (~PlanTaskDone(h) /\ PlanTaskDone(h)'
                        /\ healings'[h].error_message = "")
                    => /\ healings'[h].status = "deciding"
                       /\ healings'[h].plan # NoPlan
                       /\ states'[h].phase = "decide"
                       /\ dispatched'[h] = <<>>
                /\ (PlanTaskDone(h) /\ ~Approved(h) /\ healings'[h] # healings[h])
                    => response' = Response("cancel", NoRequest, h, 200,
                                            "cancelled")
       ]_vars

C8_Witness ==
    /\ healing_mode = "semi_auto"
    /\ now > 1
    /\ \E h \in DOMAIN healings :
        /\ PlanTaskDone(h)
        /\ ~Approved(h)
        /\ healings[h].status = "deciding"
        /\ healings[h].plan # NoPlan
        /\ healings[h].result_message = "Plan generated, awaiting approval"
        /\ dispatched[h] = <<>>

\* C9 - auto mode liveness: under fair scheduling every admitted healing
\* eventually is completed or failed, with no approve accepted; and the
\* statuses its task writes are, in this order, observing, orienting,
\* deciding, acting, validating, completed - cut short only by failed.
OODAOrder ==
    <<"observing", "orienting", "deciding", "acting", "validating", "completed">>

IsPrefix(s, r) == Len(s) <= Len(r) /\ SubSeq(r, 1, Len(s)) = s

InOODAOrder(written) ==
    \/ IsPrefix(written, OODAOrder)
    \/ /\ written # <<>>
       /\ written[Len(written)] = "failed"
       /\ IsPrefix(SubSeq(written, 1, Len(written) - 1), OODAOrder)

\* the task of h has set its status to completed or failed (a later cancel
\* overwrites the status, not the fact)
ReachedEnd(h) ==
    \E k \in DOMAIN trail[h] : trail[h][k] \in {"completed", "failed"}

C9_AutoLiveness ==
    /\ \A h \in 1..MaxHealings :
        (h \in DOMAIN healings) ~> (h \in DOMAIN healings /\ ReachedEnd(h))
    /\ [](\A h \in DOMAIN healings :
            /\ InOODAOrder(trail[h])
            /\ healings[h].status = "completed" => trail[h] = OODAOrder
            /\ ~Approved(h))

C9_Witness ==
    /\ healing_mode = "auto"
    /\ \E h \in DOMAIN healings :
        /\ healings[h].status = "completed"
        /\ trail[h] = OODAOrder
        /\ healings[h].actions_executed = Len(healings[h].plan.actions)
        /\ response.op = "trigger"

\* C10 - approve is accepted only in status deciding: an approve for an
\* unknown id is answered 404 and one for a healing in another status 400,
\* both scheduling no task and changing no HealingResult; an execution
\* task is only ever scheduled for a healing whose status is deciding.
C10_ApproveOnlyDeciding ==
    [][ /\ ApproveAnswered =>
            LET h == response'.healing_id IN
            IF h \notin DOMAIN healings
            THEN response'.code = 404 /\ RegistryUnchanged
            ELSE IF healings[h].status # "deciding"
            THEN /\ response'.code = 400
                 /\ response'.detail = "invalid_state"
                 /\ RegistryUnchanged
            ELSE /\ response'.code = 200
                 /\ healings' = healings
        /\ (Len(tasks') > Len(tasks) /\ Len(healings') = Len(healings))
            => LET t == tasks'[Len(tasks')] IN
               /\ t.kind = "execute_plan"
               /\ t.healing_id \in DOMAIN healings
               /\ healings[t.healing_id].status = "deciding"
      ]_vars

C10_Witness ==
    /\ response.op = "approve"
    /\ response.code = 400
    /\ response.healing_id \in DOMAIN healings
    /\ healings[response.healing_id].status \in {"acting", "completed"}
    /\ Cardinality({t \in DOMAIN tasks : tasks[t].kind = "execute_plan"}) = 1

\* C11 - an accepted approve resumes the healing: once an approve for a
\* healing was accepted (an execution task exists for it), the healing
\* eventually has entered acting, has actions dispatched and is in a
\* terminal status.
Resumed(h) ==
    /\ \E k \in DOMAIN trail[h] : trail[h][k] = "acting"
    /\ dispatched[h] # <<>>
    /\ healings[h].status \in TerminalStatuses

C11_ApproveResumes ==
    \A h \in 1..MaxHealings :
        (h \in DOMAIN healings /\ Approved(h))
            ~> (h \in DOMAIN healings /\ Resumed(h))

\* C12 - cancelled is absorbing: a healing whose status is cancelled (only
\* cancel sets it) keeps that status in every later step.
C12_CancelledAbsorbing ==
    [][ \A h \in DOMAIN healings :
            healings[h].status = "cancelled" => healings'[h].status = "cancelled"
      ]_vars

\* this step is a call of the cancel or of the approve handler: it answers
\* with that operation and runs no task
ControlAnswered ==
    /\ response'.op \in {"cancel", "approve"}
    /\ trail' = trail
    /\ dispatched' = dispatched
    /\ \A t \in DOMAIN tasks : tasks'[t] = tasks[t]

\* C13 - a completed or failed HealingResult is immutable: a cancel or an
\* approve leaves the status, completed_at and the counters of every
\* healing that is completed or failed as they were.
C13_TerminalImmutable ==
    [][ ControlAnswered =>
          \A h \in DOMAIN healings :
            healings[h].status \in {"completed", "failed"}
                => /\ healings'[h].status = healings[h].status
                   /\ healings'[h].completed_at = healings[h].completed_at
                   /\ healings'[h].actions_executed = healings[h].actions_executed
                   /\ healings'[h].actions_successful
                            = healings[h].actions_successful
      ]_vars

\* C14 - failure semantics: the step in which a pipeline records an
\* exception (error_message becomes set) leaves the healing failed, with
\* the exception text in error_message and completed_at stamped.
C14_FailureSemantics ==
    [][ \A h \in DOMAIN healings :
            (healings[h].error_message = "" /\ healings'[h].error_message # "")
                => /\ healings'[h].status = "failed"
                   /\ healings'[h].error_message = "exception"
                   /\ healings'[h].completed_at
      ]_vars

\* C15 - best-effort Act: every POST that returned is counted in
\* actions_executed, whatever its outcome, and counted in
\* actions_successful exactly when it succeeded; a return never changes the
\* status by itself; and when the Act of the loop finishes, every action of
\* the plan was dispatched, in order, actions_executed is the number of
\* actions of the plan and the healing becomes completed, not failed.
PlanPositions(h) == [k \in 1..Len(healings[h].plan.actions) |-> k]

ActFinished(h) ==
    /\ Len(trail'[h]) > Len(trail[h])
    /\ trail'[h][Len(trail[h]) + 1] = "validating"

C16_SequentialDispatch ==
    \A h \in DOMAIN healings :
        /\ IsPrefix(dispatched[h], PlanPositions(h))
        /\ Len(dispatched[h]) <= returns[h].total + 1

\* C17 - error isolation: a step in which the pipeline of healing h records
\* an exception, or in which cancel or approve is called for h, leaves the
\* HealingResult and the OODAState of every other healing unchanged.
Raised(h) ==
    /\ Len(trail'[h]) > Len(trail[h])
    /\ trail'[h][Len(trail'[h])] = "failed"

OthersUnchanged(h) ==
    \A g \in DOMAIN healings \ {h} :
        healings'[g] = healings[g] /\ states'[g] = states[g]

C17_ErrorIsolation ==
    [][ \A h \in DOMAIN healings :
            (Raised(h) \/ (ControlAnswered /\ response'.healing_id = h))
                => OthersUnchanged(h)
      ]_vars

C17_Witness ==
    /\ Len(healings) = 2
    /\ response = Response("cancel", NoRequest, 2, 200, "cancelled")
    /\ healings[2].status = "cancelled"
    /\ healings[1].status = "acting"
    /\ dispatched[1] # <<>>

\* C18 - a healing is only started for an incident that is not terminal:
\* whenever the agent registers a HealingResult, the incident it names is
\* not resolved and not failed in the incident store at that moment.
StoredIncident(incident_id) ==
    CHOOSE k \in DOMAIN incidents : incidents[k].incident_id = incident_id

C18_NoHealingForTerminalIncident ==
    [][ Registered =>
            incidents[StoredIncident(healings'[Len(healings')].incident_id)].status
                \notin {"resolved", "failed"}
      ]_vars

\* C19 - single open incident: for every (target_service, target_namespace)
\* at most one incident is in a status other than resolved and failed.
OpenIncidents(target) ==
    {k \in DOMAIN incidents :
        /\ incidents[k].target_service = target[1]
        /\ incidents[k].target_namespace = target[2]
        /\ incidents[k].status \notin {"resolved", "failed"}}

C19_SingleOpenIncident ==
    \A target \in Targets : Cardinality(OpenIncidents(target)) <= 1

\* C20 - correlation idempotence: an ingest for a target that has an
\* incident created within the correlation window creates no incident; it
\* answers correlated with the id of that incident, and the incident's
\* event_ids are the earlier ids followed by the id of the new signal.
IngestAnswered == Ingested' = Ingested + 1

\* the incident that holds the signal of this step
Holder(event_id) ==
    CHOOSE k \in DOMAIN incidents' :
        \E n \in DOMAIN incidents'[k].event_ids :
            incidents'[k].event_ids[n] = event_id

InWindow(target_service, target_namespace) ==
    {k \in DOMAIN incidents :
        /\ incidents[k].target_service = target_service
        /\ incidents[k].target_namespace = target_namespace
        /\ now <= incidents[k].created_at + incident_correlation_window_minutes}

Late(target) ==
    /\ OpenIncidents(target) # {}
    /\ \A k \in OpenIncidents(target) :
            now > incidents[k].created_at + incident_correlation_window_minutes

Early(target) ==
    \E k \in OpenIncidents(target) :
        now < incidents[k].created_at + incident_correlation_window_minutes

C21_WindowBoundary ==
    [][ IngestAnswered =>
          LET k == Holder(EventIds[Ingested + 1])
              target == <<incidents'[k].target_service,
                          incidents'[k].target_namespace>>
          IN  /\ Late(target) =>
                    /\ Len(incidents') = Len(incidents) + 1
                    /\ k = Len(incidents')
                    /\ manager_response'.action = "created"
                    /\ \A j \in DOMAIN incidents :
                            incidents'[j].event_ids = incidents[j].event_ids
              /\ Early(target) =>
                    /\ Len(incidents') = Len(incidents)
                    /\ manager_response'.action = "correlated"
                    /\ k \in OpenIncidents(target)
                    /\ now <= incidents[k].created_at
                                + incident_correlation_window_minutes
                    /\ incidents'[k].event_ids
                            = Append(incidents[k].event_ids, EventIds[Ingested + 1])
      ]_vars

\* a signal was correlated into inc-1 one minute after its creation, and
\* the next signal, one minute after that, created inc-2
C21_Witness ==
    /\ Len(incidents) = 2
    /\ incidents[1].target_service = incidents[2].target_service
    /\ incidents[1].target_namespace = incidents[2].target_namespace
    /\ incidents[1].status \notin {"resolved", "failed"}
    /\ Len(incidents[1].event_ids) = 2
    /\ incidents[1].updated_at
            = incidents[1].created_at + incident_correlation_window_minutes
    /\ incidents[2].created_at
            = incidents[1].updated_at + incident_correlation_window_minutes
    /\ incidents[2].event_ids = <<"evt-3">>
    /\ manager_response.action = "created"
    /\ manager_response.incident_id = "inc-2"

\* a signal was correlated into an incident in the minute of its creation
C21_WitnessEarly ==
    /\ Len(incidents) = 1
    /\ Len(incidents[1].event_ids) = 2
    /\ incidents[1].updated_at = incidents[1].created_at
    /\ now = incidents[1].created_at
    /\ manager_response.action = "correlated"

\* C22 - on every correlated signal the incident's event_ids gain the id of
\* the signal at the end and its event_count increases; the event_count of
\* an incident never decreases; an incident that an anomaly created has
\* event_count 2 after its first correlated signal.
C22_EventCountMonotone ==
    [][ /\ \A k \in DOMAIN incidents :
                incidents'[k].event_count >= incidents[k].event_count
        /\ (IngestAnswered /\ Len(incidents') = Len(incidents)) =>
              LET event_id == EventIds[Ingested + 1]
                  k == Holder(event_id)
              IN  /\ incidents'[k].event_ids
                        = Append(incidents[k].event_ids, event_id)
                  /\ incidents'[k].event_count > incidents[k].event_count
                  /\ (Len(incidents[k].event_ids) = 1
                        /\ incidents[k].status = "new")
                        => incidents'[k].event_count = 2
      ]_vars

\* C23 - an ingest that creates an incident requests exactly one healing
\* trigger for it when healing_enabled and not approval_required, and no
\* other ingest requests any; when the request returns to the ingest,
\* answered with a rejection or raised, the incident is still stored and
\* the ingest answers created.
IngestOps == {"anomaly", "log_analysis"}

IngestPosts(all) == {p \in DOMAIN all : all[p].op \in IngestOps}

PostsFor(all, incident_id) ==
    {p \in IngestPosts(all) : all[p].request.incident_id = incident_id}

PostReturned(p) ==
    /\ p \in IngestPosts(posts)
    /\ posts[p].state # "returned"
    /\ posts'[p].state = "returned"

C23_TriggerOncePerCreation ==
    [][ /\ IngestAnswered =>
              IF /\ Len(incidents') = Len(incidents) + 1
                 /\ healing_enabled
                 /\ ~approval_required
              THEN /\ Cardinality(IngestPosts(posts'))
                            = Cardinality(IngestPosts(posts)) + 1
                   /\ Cardinality(PostsFor(posts',
                            incidents'[Len(incidents')].incident_id)) = 1
              ELSE IngestPosts(posts') = IngestPosts(posts)
        /\ ~IngestAnswered => IngestPosts(posts') = IngestPosts(posts)
        /\ \A p \in DOMAIN posts :
              PostReturned(p) =>
                /\ incidents' = incidents
                /\ \E k \in DOMAIN incidents' :
                        incidents'[k].incident_id = posts[p].request.incident_id
                /\ manager_response'
                        = ManagerResponse(posts[p].op, 202, "created",
                                          posts[p].request.incident_id)
      ]_vars

\* the agent rejected the trigger of a creating ingest, which answered
\* created
C23_Witness ==
    /\ healing_enabled
    /\ ~approval_required
    /\ Len(incidents) = 1
    /\ Len(posts) = 1
    /\ posts[1].op \in IngestOps
    /\ posts[1].state = "returned"
    /\ posts[1].code \in {409, 429}
    /\ manager_response.action = "created"
    /\ manager_response.incident_id = incidents[1].incident_id

\* the POST of a creating ingest raised, and the ingest answered created
C23_WitnessRaised ==
    /\ posts # <<>>
    /\ posts[1].op \in IngestOps
    /\ posts[1].state = "returned"
    /\ posts[1].code = 0
    /\ healings = <<>>
    /\ manager_response.action = "created"

\* a creating ingest requested nothing because approval is required
C23_WitnessApproval ==
    /\ approval_required
    /\ healing_enabled
    /\ Len(incidents) = 1
    /\ posts = <<>>
    /\ manager_response.action = "created"

\* C24 - incident terminal states are absorbing: once an incident is
\* resolved or failed, no ingest, update or close gives it a status other
\* than resolved and failed, and no signal is appended to its event_ids.
C24_IncidentTerminalAbsorbing ==
    [][ \A k \in DOMAIN incidents :
            incidents[k].status \in {"resolved", "failed"} =>
                /\ incidents'[k].status \in {"resolved", "failed"}
                /\ incidents'[k].event_ids = incidents[k].event_ids
      ]_vars

\* C25 - incident finalization: when a healing for an incident is
\* completed the incident eventually is resolved in the incident store, and
\* when it is failed the incident eventually is failed.
IncidentStatusOf(h) == incidents[StoredIncident(healings[h].incident_id)].status

C25_IncidentFinalized ==
    \A h \in 1..MaxLiveHealings :
        /\ (h \in DOMAIN healings /\ healings[h].status = "completed")
                ~> (h \in DOMAIN healings /\ IncidentStatusOf(h) = "resolved")
        /\ (h \in DOMAIN healings /\ healings[h].status = "failed")
                ~> (h \in DOMAIN healings /\ IncidentStatusOf(h) = "failed")

\* a healing for a stored incident has ended while the incident is as the
\* ingest created it
C25_Unfinalized ==
    /\ healings # <<>>
    /\ healings[1].status \in {"completed", "failed"}
    /\ healings[1].completed_at
    /\ tasks[1].pc = "done"
    /\ IncidentStatusOf(1) \in {"new", "analyzing"}

\* C27 - audit retention cap: an append leaves at most max_records
\* records stored and evicts only what exceeds the cap; every record it
\* leaves stored has a timestamp greater than or equal to that of every
\* record it evicted; every stored record is the appended one or a record
\* stored before, unchanged and in the same order; no other step changes
\* the stored records.
Appended == audit_created' = audit_created + 1

Stored(records) == {records[i] : i \in DOMAIN records}

NewKept == \E r \in Stored(audit_records') : r.record_id = audit_created + 1

EvictedTimestamps ==
    {r.timestamp : r \in Stored(audit_records) \ Stored(audit_records')}
        \cup (IF NewKept THEN {} ELSE {audit_clock})

OldKept == SelectSeq(audit_records, LAMBDA r : r \in Stored(audit_records'))

C27_RetentionCap ==
    [][ IF Appended
        THEN /\ Len(audit_records') <= max_records
             /\ Len(audit_records')
                    = (IF Len(audit_records) < max_records
                       THEN Len(audit_records) + 1 ELSE max_records)
             /\ \A r \in Stored(audit_records') :
                    \/ r \in Stored(audit_records)
                    \/ r.record_id = audit_created + 1
                            /\ r.timestamp = audit_clock
             /\ audit_records' \in
                    {OldKept,
                     Append(OldKept, audit_records'[Len(audit_records')])}
             /\ \A r \in Stored(audit_records'), t \in EvictedTimestamps :
                    r.timestamp >= t
        ELSE audit_records' = audit_records
      ]_vars

\* the store was full and an append evicted the second record, the oldest
\* by timestamp, keeping the first
C27_Witness ==
    /\ audit_created = max_records + 1
    /\ Len(audit_records) = max_records
    /\ audit_records[1].record_id = 1
    /\ audit_records[2].record_id = 3
    /\ audit_records[3].record_id = 4
    /\ \A i \in DOMAIN audit_records : audit_records[i].timestamp > 1
    /\ audit_response.op = "create"

\* C28 - timeline(incident_id) answers with exactly the stored records of
\* that incident, oldest first; a listing answers with stored records that
\* pass its filter, newest first, and with the number of stored records
\* that pass it.
Matching(incident_id) ==
    {r \in Stored(audit_records) : incident_id = "" \/ r.incident_id = incident_id}

Ascending(records) ==
    \A i, j \in DOMAIN records :
        i < j => records[i].timestamp <= records[j].timestamp

Descending(records) ==
    \A i, j \in DOMAIN records :
        i < j => records[i].timestamp >= records[j].timestamp

AuditAnswered(op) ==
    /\ audit_response'.op = op
    /\ audit_response' # audit_response

C28_TimelineComplete ==
    [][ /\ AuditAnswered("timeline") =>
            /\ Stored(audit_response'.records)
                    = Matching(audit_response'.incident_id)
            /\ Len(audit_response'.records)
                    = Cardinality(Matching(audit_response'.incident_id))
            /\ Ascending(audit_response'.records)
        /\ AuditAnswered("list") =>
            /\ Stored(audit_response'.records)
                    \subseteq Matching(audit_response'.incident_id)
            /\ audit_response'.total
                    = Cardinality(Matching(audit_response'.incident_id))
            /\ Descending(audit_response'.records)
      ]_vars

\* C26 - audit emission: a healing that has ended for an incident is
\* followed by an audit record of that incident in the audit store, so the
\* timeline of a healed incident is not empty.
Audited(incident_id) ==
    \E i \in DOMAIN audit_records : audit_records[i].incident_id = incident_id

C26_AuditEmission ==
    \A h \in 1..MaxLiveHealings :
        (h \in DOMAIN healings /\ healings[h].status \in {"completed", "failed"})
            ~> (h \in DOMAIN healings /\ Audited(healings[h].incident_id))

\* C29 - plan selection: a generated plan has between 1 and 3 actions of
\* pairwise distinct types.  With the candidates being the first two actions
\* of the first cause-table entry that the observation matches, followed by
\* the actions that the first two hints name, the plan holds the first
\* three distinct candidates in the order of their first occurrence, and
\* exactly one RESTART_POD when there is no candidate.
HintTable ==
    [restart |-> <<"RESTART_POD">>, scale |-> <<"SCALE_UP">>,
     rollback |-> <<"ROLLBACK">>, circuit |-> <<"CIRCUIT_BREAKER">>,
     timeout |-> <<>>]

TableCandidates(observation) ==
    LET matching == {k \in DOMAIN CAUSE_ACTION_MAP :
                        CAUSE_ACTION_MAP[k][1] \in observation}
    IN  IF matching = {} THEN <<>>
        ELSE CAUSE_ACTION_MAP[CHOOSE k \in matching :
                                \A j \in matching : k <= j][2]

HintCandidates(hints) ==
    IF Len(hints) = 0 THEN <<>>
    ELSE IF Len(hints) = 1 THEN HintTable[hints[1]]
    ELSE HintTable[hints[1]] \o HintTable[hints[2]]

Candidates(h) ==
    TableCandidates(states[h].observation)
        \o HintCandidates(tasks[TaskOf(h)].request.recommended_actions)

FirstAt(candidates, a) ==
    CHOOSE i \in DOMAIN candidates :
        candidates[i] = a /\ \A j \in 1..(i - 1) : candidates[j] # a

Planned(h) == h \in DOMAIN healings /\ healings[h].plan # NoPlan

C29_PlanSelection ==
    \A h \in DOMAIN healings :
        Planned(h) =>
            LET actions == healings[h].plan.actions
                candidates == Candidates(h)
                types == {candidates[i] : i \in DOMAIN candidates}
                planned == {actions[i] : i \in DOMAIN actions}
            IN  /\ Len(actions) \in 1..3
                /\ \A i, j \in DOMAIN actions : i # j => actions[i] # actions[j]
                /\ IF types = {} THEN actions = <<"RESTART_POD">>
                   ELSE /\ planned \subseteq types
                        /\ Len(actions) = (IF Cardinality(types) < 3
                                           THEN Cardinality(types) ELSE 3)
                        /\ \A i, j \in DOMAIN actions :
                                i < j => FirstAt(candidates, actions[i])
                                            < FirstAt(candidates, actions[j])
                        /\ \A a \in types \ planned, b \in planned :
                                FirstAt(candidates, b) < FirstAt(candidates, a)

\* the table gave RESTART_POD and FAILOVER for database, the hints SCALE_UP
\* and ROLLBACK, and the fourth candidate was cut
C29_Witness ==
    /\ Planned(1)
    /\ tasks[1].request.root_cause = "database"
    /\ tasks[1].request.recommended_actions = <<"scale", "rollback", "circuit">>
    /\ healings[1].plan.actions = <<"RESTART_POD", "FAILOVER", "SCALE_UP">>

\* no candidate: the default plan
C29_WitnessDefault ==
    /\ Planned(1)
    /\ tasks[1].request.root_cause = "disk_full"
    /\ tasks[1].request.recommended_actions = <<>>
    /\ healings[1].plan.actions = <<"RESTART_POD">>

\* C30 - plan confidence, in hundredths: 70, plus 15 when the orientation
\* says known pattern, minus 20 when it says unknown pattern, minus 10 when
\* an action of the plan is high-risk, kept within 30..95.
HighRisk(actions) ==
    \E k \in DOMAIN actions : actions[k] \in {"ROLLBACK", "SCALE_DOWN", "CUSTOM"}

Clamp(x, low, high) == IF x < low THEN low ELSE IF x > high THEN high ELSE x

C30_PlanConfidence ==
    \A h \in DOMAIN healings :
        Planned(h) =>
            healings[h].plan.confidence
                = Clamp(70
                        + (IF "known pattern" \in states[h].orientation
                           THEN 15 ELSE 0)
                        - (IF "unknown pattern" \in states[h].orientation
                           THEN 20 ELSE 0)
                        - (IF HighRisk(healings[h].plan.actions) THEN 10 ELSE 0),
                        30, 95)

\* C31 - decision maker determinism: two healings whose requests have the
\* same root cause, severity, hints and service get plans with the same
\* sequence of action types, the same risk banner and the same confidence,
\* whatever was planned before.
SameInputs(a, b) ==
    /\ a.root_cause = b.root_cause
    /\ a.severity = b.severity
    /\ a.recommended_actions = b.recommended_actions
    /\ a.target_service = b.target_service

AnomalyCreated ==
    /\ IngestAnswered
    /\ Len(incidents') = Len(incidents) + 1
    /\ incidents'[Len(incidents')].root_cause = "error_rate_spike"

C32_Created ==
    [][ AnomalyCreated =>
            /\ incidents'[Len(incidents')].severity = "high"
            /\ incidents'[Len(incidents')].status = "new"
            /\ Len(posts') = Len(posts) + 1
            /\ posts'[Len(posts')].request.incident_id
                    = incidents'[Len(incidents')].incident_id
            /\ posts'[Len(posts')].request.severity = "high"
      ]_vars

C32_Planned ==
    \A h \in DOMAIN healings :
        (Planned(h) /\ tasks[TaskOf(h)].request.root_cause = "error_rate_spike")
            => healings[h].plan.actions[1] = "RESTART_POD"

Ended(h) ==
    /\ h \in DOMAIN healings
    /\ healings[h].status \in {"completed", "failed"}
    /\ tasks[TaskOf(h)].pc = "done"

C32_EndsCooled ==
    \A h \in 1..MaxLiveHealings :
        (h \in DOMAIN healings)
            ~> (Ended(h) /\ cooldowns[tasks[TaskOf(h)].request.target_service] # NoTime)

C32_EndToEnd == C32_Created /\ []C32_Planned /\ C32_EndsCooled

\* C33 - history(service = X, limit) returns only healings whose target
\* service is X, at most limit of them, latest started_at first.
ServiceOf(healing) == tasks[TaskOf(healing.healing_id)].request.target_service

LatestFirst(history) ==
    \A i, j \in DOMAIN history : i < j => history[i].started_at >= history[j].started_at

C33_HistoryByService ==
    [][ (response'.op = "history" /\ response'.service # "") =>
            /\ \A i \in DOMAIN response'.healings :
                    ServiceOf(response'.healings[i]) = response'.service
            /\ Len(response'.healings) <= response'.limit
            /\ LatestFirst(response'.healings)
      ]_vars

\* the parts of C33 that do not depend on the service
C33_LimitAndOrder ==
    [][ response'.op = "history" =>
            /\ Len(response'.healings) <= response'.limit
            /\ LatestFirst(response'.healings)
      ]_vars

\* C40 - every healing that has reached a terminal status is part of the
\* archived history behind the statistics and is counted once by
\* total_count: once a healing has ended completed, success_rate is
\* greater than 0 and equals completed healings / finished healings.
FinishedHealings == {h \in DOMAIN healings : healings[h].status \in TerminalStatuses}

CompletedHealings == {h \in DOMAIN healings : healings[h].status = "completed"}

C40_ArchivedStatistics ==
    [][ response'.op = "stats" =>
            /\ response'.total_healings = Len(healings')
            /\ CompletedHealings' # {} =>
                /\ response'.success_rate[1] > 0
                /\ response'.success_rate[1] * Cardinality(FinishedHealings')
                        = Cardinality(CompletedHealings') * response'.success_rate[2]
      ]_vars

\* the part of C40 about total_count
C40_TotalCount ==
    [][ response'.op = "stats" => response'.total_healings = Len(healings') ]_vars

\* C37 - in every reachable state the number of healings in a non-terminal
\* status is at most max_concurrent_healings, and so is the number of
\* healings whose task is still dispatching actions.
Dispatching ==
    {h \in DOMAIN healings : \E t \in DOMAIN tasks :
        tasks[t].healing_id = h /\ tasks[t].pc = "act"}

C37_ConcurrencyInvariant ==
    /\ Cardinality(Active) <= max_concurrent_healings
    /\ Cardinality(Dispatching) <= max_concurrent_healings

\* C38 - counters: for every healing, 0 <= actions_successful <=
\* actions_executed <= number of actions of its plan, and each action of the
\* plan is dispatched at most once, also when approve is called repeatedly.
Dispatches(h, i) == Cardinality({k \in DOMAIN dispatched[h] : dispatched[h][k] = i})

C38_CounterInvariant ==
    \A h \in DOMAIN healings :
        /\ 0 <= healings[h].actions_successful
        /\ healings[h].actions_successful <= healings[h].actions_executed
        /\ healings[h].actions_executed <= Len(healings[h].plan.actions)
        /\ \A i \in DOMAIN healings[h].plan.actions : Dispatches(h, i) <= 1

\* the part of C38 that orders the two counters
C38_SuccessfulWithinExecuted ==
    \A h \in DOMAIN healings :
        /\ 0 <= healings[h].actions_successful
        /\ healings[h].actions_successful <= healings[h].actions_executed

\* C39 - two ingests for the same target handled concurrently, with no
\* open incident for it beforehand, create one incident: an ingest handled
\* while the handler of the ingest that created the target's incident is
\* still suspended (the incident open and within the window) creates no
\* incident and is correlated into that one.
Suspended(target) ==
    {k \in OpenIncidents(target) :
        /\ now <= incidents[k].created_at + incident_correlation_window_minutes
        /\ \E p \in IngestPosts(posts) :
                /\ posts[p].state # "returned"
                /\ posts[p].request.incident_id = incidents[k].incident_id}

C39_ConcurrentIngests ==
    [][ IngestAnswered =>
          LET k == Holder(EventIds[Ingested + 1])
              target == <<incidents'[k].target_service,
                          incidents'[k].target_namespace>>
          IN  Suspended(target) # {} =>
                /\ Len(incidents') = Len(incidents)
                /\ k \in Suspended(target)
                /\ manager_response'.action = "correlated"
                /\ manager_response'.incident_id = incidents[k].incident_id
      ]_vars

C39_Witness ==
    /\ Len(incidents) = 1
    /\ incidents[1].event_ids = <<"evt-1", "evt-2">>
    /\ incidents[1].created_at = now
    /\ Len(posts) = 1
    /\ posts[1].state = "sent"
    /\ manager_response.action = "correlated"

\* C34 - anomaly alert cooldown: two anomalies emitted for the same key
\* (namespace, service, anomaly type) are at least alert_cooldown_seconds
\* apart, and a detect_anomalies call emits an anomaly for every key of a
\* metric above its threshold for which none was emitted within the
\* cooldown.
KeyOf(anomaly) ==
    <<anomaly.target_namespace, anomaly.target_service, anomaly.anomaly_type>>

AnomalyTypeOf(metric_type) ==
    IF metric_type = "error_rate" THEN "error_rate_spike" ELSE "latency_spike"

ThresholdOf(metric_type) ==
    IF metric_type = "error_rate" THEN 5
    ELSE IF metric_type = "latency_p99" THEN 1000 ELSE 500

\* the keys of the metrics above their thresholds in the input of a call
ExceedingKeys(service_metrics) ==
    {<<service_metrics[p[1]].namespace, service_metrics[p[1]].service_name,
       AnomalyTypeOf(service_metrics[p[1]].metrics[p[2]].metric_type)>> :
        p \in {q \in (DOMAIN service_metrics) \X (1..2) :
            /\ q[2] \in DOMAIN service_metrics[q[1]].metrics
            /\ service_metrics[q[1]].metrics[q[2]].value
                    > ThresholdOf(service_metrics[q[1]].metrics[q[2]].metric_type)}}

Cooling(key) ==
    \E a \in alerts :
        /\ KeyOf(a) = key
        /\ detector_clock - a.timestamp < alert_cooldown_seconds

Emitted(key) ==
    {i \in DOMAIN detection'.anomalies : KeyOf(detection'.anomalies[i]) = key}

DetectAnswered == detection' # detection \/ alerts' # alerts

C34_AlertCooldown ==
    [][ DetectAnswered =>
            /\ alerts' = alerts \cup {detection'.anomalies[i] :
                                        i \in DOMAIN detection'.anomalies}
            /\ \A key \in ExceedingKeys(detection'.service_metrics) :
                    Cardinality(Emitted(key)) = (IF Cooling(key) THEN 0 ELSE 1)
            /\ \A i \in DOMAIN detection'.anomalies :
                    /\ KeyOf(detection'.anomalies[i])
                            \in ExceedingKeys(detection'.service_metrics)
                    /\ detection'.anomalies[i].timestamp = detector_clock
      ]_vars

\* a metric above its threshold is suppressed while its key cools down, and
\* the key has been emitted again after the cooldown
C34_Witness ==
    /\ detection.anomalies = <<>>
    /\ ExceedingKeys(detection.service_metrics) # {}
    /\ \E a, b \in alerts :
            /\ KeyOf(a) = KeyOf(b)
            /\ KeyOf(b) \in ExceedingKeys(detection.service_metrics)
            /\ b.timestamp = a.timestamp + alert_cooldown_seconds

\* the state form of the first half of C34
C34_EmissionsApart ==
    \A a, b \in alerts :
        (a # b /\ KeyOf(a) = KeyOf(b) /\ a.timestamp <= b.timestamp)
            => b.timestamp - a.timestamp >= alert_cooldown_seconds

\* C35 - circuit breaker opening: in the closed state a recorded failure
\* opens the circuit exactly when it is the failure_threshold-th failure
\* since the last success, and nothing else opens it; a success in the
\* closed state resets the failure count; while open and less than
\* reset_timeout after the last failure can_execute returns False; in the
\* half-open state a success closes the circuit with failure count 0 and a
\* failure reopens it.
BreakerCalled == Len(calls') = Len(calls) + 1

\* the failures recorded since the last success or reset
RECURSIVE FailuresInARow(_)
FailuresInARow(log) ==
    IF log = <<>> THEN 0
    ELSE LET last == log[Len(log)]
             rest == SubSeq(log, 1, Len(log) - 1)
         IN  IF last.op = "record_failure" THEN 1 + FailuresInARow(rest)
             ELSE IF last.op = "can_execute" THEN FailuresInARow(rest)
             ELSE 0

RECURSIVE LastFailureAt(_)
LastFailureAt(log) ==
    IF log = <<>> THEN NoTime
    ELSE IF log[Len(log)].op = "record_failure" THEN log[Len(log)].at
    ELSE LastFailureAt(SubSeq(log, 1, Len(log) - 1))

C35_BreakerOpening ==
    [][ BreakerCalled =>
          LET call == calls'[Len(calls')] IN
          /\ call.state = _state'
          /\ (_state = "closed" /\ call.op = "record_failure") =>
                /\ _state' = (IF FailuresInARow(calls') = failure_threshold
                              THEN "open" ELSE "closed")
          /\ (_state = "closed" /\ call.op # "record_failure") =>
                _state' = "closed"
          /\ (_state = "closed" /\ call.op = "record_success") =>
                _failure_count' = 0
          /\ (/\ _state = "open"
              /\ call.op = "can_execute"
              /\ breaker_clock - LastFailureAt(calls) < reset_timeout) =>
                /\ call.result = FALSE
                /\ _state' = "open"
          /\ (_state = "half_open" /\ call.op = "record_success") =>
                /\ _state' = "closed"
                /\ _failure_count' = 0
          /\ (_state = "half_open" /\ call.op = "record_failure") =>
                _state' = "open"
      ]_vars

\* the circuit opened at the threshold after a success had reset the count,
\* refused a call, went half-open and was closed by a success
C35_Witness ==
    /\ Len(calls) = 6
    /\ calls[1].op = "record_failure" /\ calls[1].state = "closed"
    /\ calls[2].op = "record_success" /\ calls[2].state = "closed"
    /\ calls[3].op = "record_failure" /\ calls[3].state = "closed"
    /\ calls[4].op = "record_failure" /\ calls[4].state = "open"
    /\ calls[5].op = "can_execute" /\ calls[5].state = "half_open"
    /\ calls[6].op = "record_success" /\ calls[6].state = "closed"
    /\ _failure_count = 0

\* a call refused while the circuit is open, and a failure that reopens it
C35_WitnessRefused ==
    /\ Len(calls) = 5
    /\ calls[3].op = "can_execute" /\ ~calls[3].result /\ calls[3].state = "open"
    /\ calls[4].op = "can_execute" /\ calls[4].state = "half_open"
    /\ calls[5].op = "record_failure" /\ calls[5].state = "open"

\* C36 - half-open probe limit: after the call that moves the circuit to
\* half-open, and until the next record_success or record_failure,
\* can_execute returns True for at most half_open_max_calls calls.
Entering(i) ==
    /\ i > 1
    /\ calls[i].op = "can_execute"
    /\ calls[i].state = "half_open"
    /\ calls[i - 1].state = "open"

ProbesAfter(i) ==
    {j \in (i + 1)..Len(calls) :
        /\ \A m \in (i + 1)..j : calls[m].op = "can_execute"
        /\ calls[j].result}

C36_HalfOpenProbeLimit ==
    \A i \in DOMAIN calls :
        Entering(i) => Cardinality(ProbesAfter(i)) <= half_open_max_calls

====
